---------------------------- MODULE Spec2Model ----------------------------
(***************************************************************************)
(* Model of the build-log classifier src/error.py of kernel_build_action.  *)
(*                                                                         *)
(* Text is modelled as a sequence of tokens.  A token stands for a literal *)
(* fragment of text (a word, a phrase, one white-space character, a run of *)
(* digits); a log line is a sequence of tokens and a block's text is the   *)
(* lines joined by the token "\n".  Regular expressions are sequences of   *)
(* atoms matched token by token by the operators re_match_here and         *)
(* re_search below, with the semantics of Python's re module: \s, \d+, .*  *)
(* (which does not cross "\n") and literals, optionally ignoring case.     *)
(***************************************************************************)
EXTENDS Integers, Sequences, FiniteSets, TLC

-----------------------------------------------------------------------------
(* Bounds of the model *)

\* Largest number of lines of a log file.
MaxLines == 3

-----------------------------------------------------------------------------
(* Text and regular expressions *)

NL == "\n"
SP == " "
TAB == "\t"

\* Regular-expression atoms that are not literals.
WHITESPACE == "\\s"
DIGITS == "\\d+"
DOTSTAR == ".*"

\* The characters Python treats as white space (str.strip, \s) among the tokens.
IsSpace(t) == t \in {SP, TAB, NL, "\r"}

IsDigit(t) == t \in {"0", "1", "2", "3", "4", "5", "6", "7", "8", "9"}

\* str.lower on the tokens of the model that hold upper-case letters.
Lower(t) ==
  CASE t = "ERROR:" -> "error:"
    [] t = "Error" -> "error"
    [] t = "Undefined Reference To" -> "undefined reference to"
    [] t = "No such file or directory" -> "no such file or directory"
    [] t = "-Werror" -> "-werror"
    [] t = "MODULE_IMPORT_NS(VFS_internal_I_am_really_a_filesystem_and_am_NOT_a_driver)"
         -> "module_import_ns(vfs_internal_i_am_really_a_filesystem_and_am_not_a_driver)"
    [] OTHER -> t

\* How a literal of a pattern compares with a token of the text.
Fold(t, ignorecase) == IF ignorecase THEN Lower(t) ELSE t

\* Whether pattern pat, from its atom i on, matches text at token j.
RECURSIVE re_match_here(_, _, _, _, _)
re_match_here(pat, i, text, j, ignorecase) ==
  IF i > Len(pat) THEN TRUE
  ELSE IF pat[i] = DOTSTAR THEN
    \E k \in j..(Len(text) + 1) :
      /\ \A m \in j..(k - 1) : text[m] # NL
      /\ re_match_here(pat, i + 1, text, k, ignorecase)
  ELSE IF pat[i] = DIGITS THEN
    \E k \in (j + 1)..(Len(text) + 1) :
      /\ \A m \in j..(k - 1) : IsDigit(text[m])
      /\ re_match_here(pat, i + 1, text, k, ignorecase)
  ELSE IF pat[i] = WHITESPACE THEN
    /\ j <= Len(text)
    /\ IsSpace(text[j])
    /\ re_match_here(pat, i + 1, text, j + 1, ignorecase)
  ELSE
    /\ j <= Len(text)
    /\ Fold(text[j], ignorecase) = Fold(pat[i], ignorecase)
    /\ re_match_here(pat, i + 1, text, j + 1, ignorecase)

\* re.match(pat, text): a match at the start of the text only.
re_match(pat, text, ignorecase) == re_match_here(pat, 1, text, 1, ignorecase)

\* re.search(pat, text): a match starting anywhere in the text.
re_search(pat, text, ignorecase) ==
  \E j \in 1..(Len(text) + 1) : re_match_here(pat, 1, text, j, ignorecase)

\* "sub in text" for a one-token literal, case-sensitive.
Contains(text, sub) == \E j \in 1..Len(text) : text[j] = sub

\* line.rstrip('\n\r')
RECURSIVE rstrip_nl(_)
rstrip_nl(line) ==
  IF line # <<>> /\ line[Len(line)] \in {NL, "\r"}
  THEN rstrip_nl(SubSeq(line, 1, Len(line) - 1))
  ELSE line

\* line.strip(): what is left after removing leading and trailing white space.
RECURSIVE strip(_)
strip(line) ==
  IF line = <<>> THEN line
  ELSE IF IsSpace(line[1]) THEN strip(Tail(line))
  ELSE IF IsSpace(line[Len(line)]) THEN strip(SubSeq(line, 1, Len(line) - 1))
  ELSE line

\* "\n".join(lines)
RECURSIVE join_lines(_)
join_lines(lines) ==
  IF lines = <<>> THEN <<>>
  ELSE IF Len(lines) = 1 THEN lines[1]
  ELSE lines[1] \o <<NL>> \o join_lines(Tail(lines))

-----------------------------------------------------------------------------
(* analyze_error_block: the catalog and the classification *)

DefaultType == "Uncommon Error"
DefaultSuggestion ==
  "Please follow the compilation output error results and try to resolve using search engines"

error_patterns ==
  <<
    \* error.py:30
    [pattern |-> <<"No such file or directory">>,
     etype |-> "Missing Header or Source File",
     sugg |-> "Check if the file path is correct, or if required development libraries are missing (e.g., libssl-dev, zlib1g-dev)."],
    \* error.py:35
    [pattern |-> <<"undefined reference to">>,
     etype |-> "Link Error: Missing Library or Function",
     sugg |-> "Check if required libraries are missing (e.g., -lssl, -lcrypto), if library paths are in LDFLAGS/LDLIBS, or if function names are misspelled."],
    \* error.py:40
    [pattern |-> <<"unrecognized command line option">>,
     etype |-> "Compiler Option Not Supported",
     sugg |-> "Your compiler version may be too old or too new. Check the options passed to the compiler in the Makefile for compatibility with your compiler version. Consider upgrading or downgrading the toolchain."],
    \* error.py:45
    [pattern |-> <<"misleading-indentation">>,
     etype |-> "Code Indentation Does Not Match Logic",
     sugg |-> "This is a code style/logic potential error. Add braces '{}' after 'if', 'for', 'while' statements to clarify code block scope. Or disable this warning (not recommended)."],
    \* error.py:50
    [pattern |-> <<"type specifier missing">>,
     etype |-> "C Language Type Declaration Missing",
     sugg |-> "Variable or function declarations may be missing types (e.g., 'int'). For kernel modules, it could be missing headers or ordering issues, or API changes between kernel versions."],
    \* error.py:55
    [pattern |-> <<"make[", DIGITS, "]:", DOTSTAR, "Error", " ", DIGITS>>,
     etype |-> "Makefile Build Error",
     sugg |-> "This is a Makefile rule execution failure. Check the specific error messages above, usually a subcommand (e.g., 'gcc', 'ld', 'sh') returned a non-zero status code."],
    \* error.py:60
    [pattern |-> <<"target emulation unknown">>,
     etype |-> "Linker Emulation Mode Error",
     sugg |-> "Your linker (ld) does not recognize the specific emulation mode. Check if LLVM and GNU toolchains are mixed, or ensure LD variable correctly points to LLVM's lld."],
    \* error.py:65
    [pattern |-> <<"cannot open", DOTSTAR, ".gz">>,
     etype |-> "File Missing (Configuration May Not Be Generated)",
     sugg |-> "Check if 'make defconfig' or your device-specific config has been run. If 'make mrproper' was executed previously, reconfiguration is needed."],
    \* error.py:70
    [pattern |-> <<"makes pointer from integer without a cast">>,
     etype |-> "Type Conversion Error (Pointer and Integer)",
     sugg |-> "This is a severe type mismatch. Usually the function return type does not match the expected type (e.g., returning int but expecting pointer). May need to modify source code or use a more compatible compiler."],
    \* error.py:75
    [pattern |-> <<"MODULE_IMPORT_NS(VFS_internal_I_am_really_a_filesystem_and_am_NOT_a_driver)">>,
     etype |-> "Clang Version Anomaly",
     sugg |-> "This is a compiler and KernelSU compatibility issue, usually occurs with KernelSU official version and SukiSU-Ultra. For official version, you can choose the old v0.9.5 version; for SukiSU-Ultra, it is generally recommended to switch to a different KernelSU branch."],
    \* error.py:80
    [pattern |-> <<"not found (required by clang)">>,
     etype |-> "Clang Version Anomaly",
     sugg |-> "The current build system version is too old. If using 20.04, please use 22.04, otherwise use latest."],
    \* error.py:85
    [pattern |-> <<"multiple definition of 'yylloc'">>,
     etype |-> "Kernel Defect",
     sugg |-> "Modify YYLTYPE yylloc to extern YYLTYPE yylloc in scripts/dtc/dtc-lexer.lex.c_shipped"],
    \* error.py:90
    [pattern |-> <<"assembler command failed with exit code 1">>,
     etype |-> "Clang Compiler Error",
     sugg |-> "Switch to a different Clang compiler version"],
    \* error.py:95
    [pattern |-> <<"incompatible pointer types passing 'atomic_long_t *'">>,
     etype |-> "Source Code Pointer Type Error",
     sugg |-> "Usually occurs after manual patching of cred.h, replace atomic_inc_not_zero with atomic_long_inc_not_zero in the code"],
    \* error.py:100
    [pattern |-> <<"-Werror">>,
     etype |-> "Warning Treated as Error",
     sugg |-> "The compiler is treating warnings as errors due to -Werror flag. Either fix the underlying warning, or temporarily remove -Werror from CFLAGS/KBUILD_CFLAGS in the Makefile to allow compilation with warnings."],
    \* error.py:105
    [pattern |-> <<"implicit declaration of function">>,
     etype |-> "Implicit Function Declaration",
     sugg |-> "A function is being used without being declared first. Include the proper header file, or add a function declaration/prototype before use. This may also indicate an API change in newer kernel versions."],
    \* error.py:110
    [pattern |-> <<"array subscript", DOTSTAR, "is outside array bounds">>,
     etype |-> "Array Index Out of Bounds",
     sugg |-> "Accessing an array element outside its declared size. Check array bounds and ensure indices are within valid range [0, size-1]. This could be a buffer overflow risk."],
    \* error.py:115
    [pattern |-> <<"division by zero">>,
     etype |-> "Division by Zero",
     sugg |-> "Code attempts to divide by zero. Add proper checks to ensure the divisor is not zero before performing division operations."],
    \* error.py:120
    [pattern |-> <<"null pointer dereference">>,
     etype |-> "Null Pointer Dereference",
     sugg |-> "Attempting to access memory through a null pointer. Add null checks before dereferencing pointers, or ensure proper initialization before use."],
    \* error.py:125
    [pattern |-> <<"incompatible implicit declaration">>,
     etype |-> "Incompatible Implicit Declaration",
     sugg |-> "Function was implicitly declared with a signature that doesn't match its actual definition. Include the correct header or add a proper function prototype."],
    \* error.py:130
    [pattern |-> <<"unused variable">>,
     etype |-> "Unused Variable",
     sugg |-> "A variable is declared but never used. Either use the variable, remove it, or mark it with __maybe_unused attribute to suppress the warning."],
    \* error.py:135
    [pattern |-> <<"uninitialized variable">>,
     etype |-> "Uninitialized Variable",
     sugg |-> "A variable is being used before being initialized. Initialize the variable at declaration or before first use."],
    \* error.py:140
    [pattern |-> <<"dereferencing pointer to incomplete type">>,
     etype |-> "Dereferencing Incomplete Type",
     sugg |-> "Attempting to access members of a struct/union that hasn't been fully defined. Include the header file containing the complete type definition."],
    \* error.py:145
    [pattern |-> <<"conflicting types">>,
     etype |-> "Conflicting Types",
     sugg |-> "A function or variable has been declared with different types in different places. Ensure all declarations match the definition exactly."],
    \* error.py:150
    [pattern |-> <<"redefinition of ">>,
     etype |-> "Symbol Redefinition",
     sugg |-> "A function, variable, or macro has been defined multiple times. Check for duplicate definitions or include guards in header files."],
    \* error.py:155
    [pattern |-> <<"deprecated">>,
     etype |-> "Deprecated API Usage",
     sugg |-> "Using a deprecated function or feature. Update the code to use the recommended replacement API or suppress with -Wno-deprecated-declarations (not recommended for long-term)."],
    \* error.py:160
    [pattern |-> <<"overflow in conversion">>,
     etype |-> "Integer Overflow in Conversion",
     sugg |-> "A value is being converted to a type that cannot hold it. Check value ranges and use appropriate data types or add bounds checking."],
    \* error.py:165
    [pattern |-> <<"shift count overflow">>,
     etype |-> "Bit Shift Overflow",
     sugg |-> "The shift amount exceeds the bit width of the type. Ensure shift counts are less than the type's bit width (e.g., < 32 for int32)."],
    \* error.py:170
    [pattern |-> <<"cast from pointer to integer of different size">>,
     etype |-> "Pointer to Integer Size Mismatch",
     sugg |-> "Converting a pointer to an integer type with different size. Use uintptr_t or intptr_t types which are guaranteed to hold pointer values."],
    \* error.py:175
    [pattern |-> <<"variable length array">>,
     etype |-> "Variable Length Array (VLA) Used",
     sugg |-> "Using VLA which may cause stack overflow. Consider using dynamic allocation (kmalloc/vmalloc for kernel) instead, or ensure size is bounded."],
    \* error.py:180
    [pattern |-> <<"taking address of temporary">>,
     etype |-> "Address of Temporary Value",
     sugg |-> "Attempting to take the address of a temporary/rvalue. Store the value in a variable first, then take its address."],
    \* error.py:185
    [pattern |-> <<"control reaches end of non-void function">>,
     etype |-> "Missing Return Statement",
     sugg |-> "A non-void function may reach the end without returning a value. Add a return statement at the end of all code paths."],
    \* error.py:190
    [pattern |-> <<"comparison of integer expressions of different signedness">>,
     etype |-> "Signed/Unsigned Comparison",
     sugg |-> "Comparing signed and unsigned integers. Cast one operand to match the other's type, or ensure consistent types throughout."],
    \* error.py:195
    [pattern |-> <<"result of operation is still indeterminate">>,
     etype |-> "Sequence Point Violation",
     sugg |-> "Undefined behavior due to multiple modifications between sequence points. Break the expression into multiple statements."],
    \* error.py:200
    [pattern |-> <<"stack-protector">>,
     etype |-> "Stack Protection Enabled But Failed",
     sugg |-> "Stack smashing detected or stack protector instrumentation failed. Check for buffer overflows in the code, or disable with -fno-stack-protector (not recommended)."],
    \* error.py:205
    [pattern |-> <<"clock skew detected">>,
     etype |-> "Clock Skew Detected",
     sugg |-> "File timestamps are in the future. Synchronize system clock or touch the affected files to update timestamps."]
  >>

\* for pattern, etype, sugg in error_patterns: the scan from entry k on, which
\* stops (break) at the first entry whose pattern is found in the text.
RECURSIVE scan_patterns(_, _)
scan_patterns(text, k) ==
  IF k > Len(error_patterns)
  THEN [error_type |-> DefaultType, suggestion |-> <<DefaultSuggestion>>]
  ELSE IF re_search(error_patterns[k].pattern, text, TRUE)
  THEN [error_type |-> error_patterns[k].etype,
        suggestion |-> <<"Suggestion: ", error_patterns[k].sugg>>]
  ELSE scan_patterns(text, k + 1)

\* The scan without its break: the last entry found in the text wins.
RECURSIVE scan_patterns_no_break(_, _, _)
scan_patterns_no_break(text, k, found) ==
  IF k > Len(error_patterns) THEN found
  ELSE IF re_search(error_patterns[k].pattern, text, TRUE)
  THEN scan_patterns_no_break(text, k + 1,
         [error_type |-> error_patterns[k].etype,
          suggestion |-> <<"Suggestion: ", error_patterns[k].sugg>>])
  ELSE scan_patterns_no_break(text, k + 1, found)

\* Mutant of analyze_error_block: the loop over the catalog lacks its break.
analyze_error_block_no_break(error_lines, error_num) ==
  scan_patterns_no_break(join_lines(error_lines), 1,
    [error_type |-> DefaultType, suggestion |-> <<DefaultSuggestion>>])

\* The scan with re.match in place of re.search.
RECURSIVE scan_patterns_match(_, _)
scan_patterns_match(text, k) ==
  IF k > Len(error_patterns)
  THEN [error_type |-> DefaultType, suggestion |-> <<DefaultSuggestion>>]
  ELSE IF re_match(error_patterns[k].pattern, text, TRUE)
  THEN [error_type |-> error_patterns[k].etype,
        suggestion |-> <<"Suggestion: ", error_patterns[k].sugg>>]
  ELSE scan_patterns_match(text, k + 1)

\* Mutant of analyze_error_block: patterns are matched at the start of the
\* block's text only.
analyze_error_block_match_at_start(error_lines, error_num) ==
  scan_patterns_match(join_lines(error_lines), 1)

\* Mutant of analyze_error_block: the block's number is taken for the catalog
\* entry to start the scan at.
analyze_error_block_from_number(error_lines, error_num) ==
  scan_patterns(join_lines(error_lines), error_num)

\* analyze_error_block(error_lines, error_num): (error_type, suggestion); the
\* suggestion is the sequence of fragments of the returned string.
analyze_error_block(error_lines, error_num) ==
  scan_patterns(join_lines(error_lines), 1)

-----------------------------------------------------------------------------
(* The log files of the model *)

\* Lines a build log is made of, without their line terminator.
LineBlank == <<>>
LineSpaces == <<SP, TAB>>
LineError == <<"foo.c:10:5:", SP, "error:", SP, "something">>
LineFatal ==
  <<"foo.c:1:10:", SP, "fatal", SP, "ERROR:", SP, "foo.h:", SP, "No such file or directory">>
LineUndefined == <<"ld:", SP, "undefined reference to", SP, "'foo'">>
LineNote == <<"foo.c:3:1:", SP, "note:", SP, "declared here">>
LineMake == <<"make[", "2", "]:", SP, "***", SP, "[foo.o]", SP, "Error", SP, "1">>
LineNoFile == <<"cc1:", SP, "foo.h:", SP, "No such file or directory">>
LineWerror == <<"error:", SP, "unused variable", SP, "[", "-Werror", "]">>

LineSet ==
  {LineBlank, LineSpaces, LineError, LineFatal, LineUndefined, LineNote, LineMake,
   LineNoFile, LineWerror}

\* A line as iterating over the file yields it: with its terminator.
RawLine(l) == l \o <<NL>>

\* The contents of a log file: at most MaxLines lines.
Logs == UNION {[1..n -> {RawLine(l) : l \in LineSet}] : n \in 0..MaxLines}

\* The log file as the run finds it: absent, present but not openable for
\* reading, or readable with some content.
LogFiles ==
  {[state |-> "missing", content |-> <<>>], [state |-> "unreadable", content |-> <<>>]}
    \cup {[state |-> "readable", content |-> c] : c \in Logs}

\* sys.argv[1] if len(sys.argv) > 1 else 'error.log'
log_file == "error.log"

-----------------------------------------------------------------------------
(* analyze_errors: the segmentation loop *)

\* r'\serror:|\sfatal error:|undefined reference to'
error_start_alternatives ==
  << <<WHITESPACE, "error:">>,
     <<WHITESPACE, "fatal", SP, "error:">>,
     <<"undefined reference to">> >>

\* re.search(r'\serror:|\sfatal error:|undefined reference to', line, re.IGNORECASE)
is_error_start(line) ==
  \E a \in 1..Len(error_start_alternatives) :
    re_search(error_start_alternatives[a], line, TRUE)

\* 'note:' in line or (re.search(r'make\[\d+\]:', line) and '***' in line) or line.strip()
is_continuation(line) ==
  \/ Contains(line, "note:")
  \/ re_search(<<"make[", DIGITS, "]:">>, line, FALSE) /\ Contains(line, "***")
  \/ strip(line) # <<>>

\* Mutant of process_line: the counter is incremented where a block is closed
\* by a trigger line or opened after none, so consecutive triggers count once
\* too few.
process_line_count_on_open(s, line) ==
  IF is_error_start(line) THEN
    [error_blocks |->
       IF s.processing_error /\ s.current_error_lines # <<>>
       THEN Append(s.error_blocks, s.current_error_lines)
       ELSE s.error_blocks,
     processing_error |-> TRUE,
     error_count |-> IF s.processing_error THEN s.error_count ELSE s.error_count + 1,
     current_error_lines |-> <<line>>]
  ELSE IF s.processing_error /\ is_continuation(line) THEN
    [s EXCEPT !.current_error_lines = Append(@, line)]
  ELSE
    [error_blocks |->
       IF s.processing_error /\ s.current_error_lines # <<>>
       THEN Append(s.error_blocks, s.current_error_lines)
       ELSE s.error_blocks,
     processing_error |-> FALSE,
     error_count |-> s.error_count,
     current_error_lines |-> <<>>]

\* Mutant of process_line: a trigger line does not save the block it interrupts.
process_line_drop_interrupted(s, line) ==
  IF is_error_start(line) THEN
    [error_blocks |-> s.error_blocks,
     processing_error |-> TRUE,
     error_count |-> s.error_count + 1,
     current_error_lines |-> <<line>>]
  ELSE IF s.processing_error /\ is_continuation(line) THEN
    [s EXCEPT !.current_error_lines = Append(@, line)]
  ELSE
    [error_blocks |->
       IF s.processing_error /\ s.current_error_lines # <<>>
       THEN Append(s.error_blocks, s.current_error_lines)
       ELSE s.error_blocks,
     processing_error |-> FALSE,
     error_count |-> s.error_count,
     current_error_lines |-> <<>>]

\* Mutant of process_line: the continuation test comes first, so a trigger line
\* met inside a block is appended to it.
process_line_continuation_first(s, line) ==
  IF s.processing_error /\ is_continuation(line) THEN
    [s EXCEPT !.current_error_lines = Append(@, line)]
  ELSE IF is_error_start(line) THEN
    [error_blocks |->
       IF s.processing_error /\ s.current_error_lines # <<>>
       THEN Append(s.error_blocks, s.current_error_lines)
       ELSE s.error_blocks,
     processing_error |-> TRUE,
     error_count |-> s.error_count + 1,
     current_error_lines |-> <<line>>]
  ELSE
    [error_blocks |->
       IF s.processing_error /\ s.current_error_lines # <<>>
       THEN Append(s.error_blocks, s.current_error_lines)
       ELSE s.error_blocks,
     processing_error |-> FALSE,
     error_count |-> s.error_count,
     current_error_lines |-> <<>>]

\* Mutant of process_line: a line that ends a block resets the accumulator
\* without saving it.
process_line_drop_on_end(s, line) ==
  IF is_error_start(line) THEN
    [error_blocks |->
       IF s.processing_error /\ s.current_error_lines # <<>>
       THEN Append(s.error_blocks, s.current_error_lines)
       ELSE s.error_blocks,
     processing_error |-> TRUE,
     error_count |-> s.error_count + 1,
     current_error_lines |-> <<line>>]
  ELSE IF s.processing_error /\ is_continuation(line) THEN
    [s EXCEPT !.current_error_lines = Append(@, line)]
  ELSE
    [error_blocks |-> s.error_blocks,
     processing_error |-> FALSE,
     error_count |-> s.error_count,
     current_error_lines |-> <<>>]

\* One iteration of "for line in f" on the stripped line, on the loop's
\* variables s = [error_count, current_error_lines, processing_error, error_blocks].
process_line(s, line) ==
  IF is_error_start(line) THEN
    [error_blocks |->
       IF s.processing_error /\ s.current_error_lines # <<>>
       THEN Append(s.error_blocks, s.current_error_lines)
       ELSE s.error_blocks,
     processing_error |-> TRUE,
     error_count |-> s.error_count + 1,
     current_error_lines |-> <<line>>]
  ELSE IF s.processing_error /\ is_continuation(line) THEN
    [s EXCEPT !.current_error_lines = Append(@, line)]
  ELSE
    [error_blocks |->
       IF s.processing_error /\ s.current_error_lines # <<>>
       THEN Append(s.error_blocks, s.current_error_lines)
       ELSE s.error_blocks,
     processing_error |-> FALSE,
     error_count |-> s.error_count,
     current_error_lines |-> <<>>]

\* Mutant of flush_last_block: the accumulator is appended without a test.
flush_last_block_unconditional(s) == Append(s.error_blocks, s.current_error_lines)

\* "Handle last error block": the block list after the loop.
flush_last_block(s) ==
  IF s.processing_error /\ s.current_error_lines # <<>>
  THEN Append(s.error_blocks, s.current_error_lines)
  ELSE s.error_blocks

-----------------------------------------------------------------------------
(* analyze_errors: the report *)

\* print_separator(): "-" * 56
Separator == <<"--------------------------------------------------------">>
\* "=" * 56
Banner == "========================================================"

Header == <<"Analyzing log file: ", log_file>>
MissingDiagnostic == <<"Error: Log file '", log_file, "' does not exist.">>

\* Mutant of block_output: enumerate(error_blocks) without its start of 1.
block_output_zero_based(i, block, cls) ==
  << <<"Error #", ToString(i - 1), ":">> >>
    \o [k \in 1..Len(block) |-> <<"  ">> \o block[k]]
    \o << <<"Error: ", cls.error_type>>,
          <<"Suggestion: ">> \o cls.suggestion,
          Separator >>

\* The lines printed for block number i (lines 274-281).
block_output(i, block, cls) ==
  << <<"Error #", ToString(i), ":">> >>
    \o [k \in 1..Len(block) |-> <<"  ">> \o block[k]]
    \o << <<"Error: ", cls.error_type>>,
          <<"Suggestion: ">> \o cls.suggestion,
          Separator >>

\* Mutant of errors_found: the test is count >= 0.
errors_found_or_none(count) == count >= 0

\* if error_count > 0 (lines 287 and 298)
errors_found(count) == count > 0

\* The totals printed after the blocks (lines 287-295).
totals_output(count) ==
  (IF errors_found(count)
   THEN << <<"Total found ", ToString(count), " error(s).">>,
           <<"Please carefully review the error messages and suggestions above.">> >>
   ELSE << <<"No errors found.">> >>)
    \o <<Separator>>

\* The final summary (lines 298-308).
summary_output(count, summaries) ==
  IF errors_found(count)
  THEN << <<"\n">>, <<Banner>>, <<"                    Error Summary">>, <<Banner>> >>
         \o [k \in 1..(2 * Len(summaries)) |->
               IF k % 2 = 1
               THEN <<"\n  [", ToString((k + 1) \div 2), "] ", summaries[(k + 1) \div 2][1]>>
               ELSE <<"      ">> \o summaries[k \div 2][2]]
         \o << <<"\n", Banner>>, <<"Total: ", ToString(count), " error(s)">>, <<Banner>> >>
  ELSE <<>>

\* Mutant of touch: only the times of an existing file are updated.
touch_existing_only(exists) == exists

\* Path('have_error').touch(): the file exists afterwards.
touch(exists) == TRUE

\* Mutant of main_exit_status: sys.exit(analyze_errors(log_file)).
main_exit_status_from_result(result) == result

\* main(): analyze_errors(log_file), whose result is dropped; the process then
\* ends normally.
main_exit_status(result) == 0

-----------------------------------------------------------------------------
(* The classifier process and the working directory it runs in *)

VARIABLES
  log,                  \* the log file on disk: [state, content]
  have_error,           \* whether the file have_error exists in the working directory
  have_error_before,    \* whether it existed when the current process started
  pc,                   \* where the process is: idle, check, open, loop, report, exited
  pos,                  \* index of the next line the loop reads
  error_count,
  current_error_lines,
  processing_error,
  error_blocks,
  error_summaries,
  stdout,               \* lines printed to standard output by the process
  stderr,               \* lines written to standard error by the process
  touched,              \* whether the process has called Path('have_error').touch()
  result,               \* value returned by analyze_errors, -1 before it returns
  exit_status,          \* exit status of the process, -1 while it runs
  previous,             \* what the run before this one, on the same log, left behind
  cleaner,              \* a process of clean.py, its arguments and what it runs in
  extraction,           \* a call of safe_extract, its archive and the file system
  kconfig,              \* a process of lxc/config.py or nethunter/config.py and its file
  patcher               \* a call of apply_cgroup_patch of lxc/patch.py and its file

vars ==
  <<log, have_error, have_error_before, pc, pos, error_count, current_error_lines,
    processing_error, error_blocks, error_summaries, stdout, stderr, touched,
    result, exit_status, previous, cleaner, extraction, kconfig, patcher>>

\* No run is remembered.
NoPrevious == [ran |-> FALSE, stdout |-> <<>>, have_error |-> FALSE]

\* No process of clean.py.
NoCleaner ==
  [pc |-> "idle",
   args |-> [all |-> FALSE, toolchains |-> FALSE, ccache |-> FALSE, env |-> FALSE],
   fs |-> {}, environ |-> {}, stdout |-> <<>>, stderr |-> <<>>, exit_status |-> -1]

\* No call of safe_extract.
NoFiles == [dirs |-> {}, files |-> {}, links |-> <<>>]
NoExtraction ==
  [pc |-> "idle", namelist |-> <<>>, next |-> 1, fs0 |-> NoFiles, fs |-> NoFiles,
   written |-> {}, raised |-> "none"]

\* The content of a file: its lines, and whether the last one ends with a
\* newline (an empty file has no line).  No process of lxc/config.py or
\* nethunter/config.py: NoConfigRun.
EmptyFile == [lines |-> <<>>, eol |-> TRUE]
NoConfigRun ==
  [pc |-> "idle", script |-> "lxc", write_mode |-> FALSE, path |-> "missing",
   file0 |-> EmptyFile, file |-> EmptyFile, errors |-> 0, fixes |-> 0,
   reads |-> 0, writes |-> 0, stdout |-> <<>>, exit_status |-> -1, run |-> 1]

\* No call of apply_cgroup_patch.
NoPatcher ==
  [pc |-> "idle", file0 |-> <<>>, file |-> <<>>, lines |-> <<>>, next |-> 1,
   new_lines |-> <<>>, in_function |-> FALSE, brace_count |-> 0,
   inserted |-> FALSE, reads |-> 0, writes |-> 0, stdout |-> <<>>, stderr |-> <<>>]

\* The other scripts of the repository are not running, and stay so.
OtherScriptsIdle ==
  /\ cleaner = NoCleaner /\ extraction = NoExtraction /\ kconfig = NoConfigRun
  /\ patcher = NoPatcher
OtherScriptsUnchanged == UNCHANGED <<cleaner, extraction, kconfig, patcher>>

\* The variables that are not the classifier's, in their initial state.
RestInit == previous = NoPrevious /\ OtherScriptsIdle

\* What a step of the classifier leaves alone.
RestUnchanged == UNCHANGED <<previous>> /\ OtherScriptsUnchanged

\* The loop's variables as one record.
loop_state ==
  [error_count |-> error_count,
   current_error_lines |-> current_error_lines,
   processing_error |-> processing_error,
   error_blocks |-> error_blocks]

\* No classifier process: the state of a process's variables before it starts.
NoProcess ==
  /\ pos = 1
  /\ error_count = 0
  /\ current_error_lines = <<>>
  /\ processing_error = FALSE
  /\ error_blocks = <<>>
  /\ error_summaries = <<>>
  /\ stdout = <<>>
  /\ stderr = <<>>
  /\ touched = FALSE
  /\ result = -1
  /\ exit_status = -1

NoLog == [state |-> "missing", content |-> <<>>]

\* A working directory that holds neither a log nor have_error, and no process.
Init ==
  /\ log = NoLog
  /\ have_error = FALSE
  /\ have_error_before = FALSE
  /\ pc = "idle"
  /\ NoProcess
  /\ RestInit

\* A build has left its log (or none) and the classifier is started on it:
\* main(), line 315.
Run ==
  /\ pc = "idle"
  /\ log' \in LogFiles
  /\ have_error_before' = have_error
  /\ pc' = "check"
  /\ UNCHANGED <<have_error, pos, error_count, current_error_lines, processing_error,
                 error_blocks, error_summaries, stdout, stderr, touched, result,
                 exit_status>>
  /\ RestUnchanged

\* Lines 225-236: the existence check, then the header and the loop's variables.
CheckExists ==
  /\ pc = "check"
  /\ IF log.state = "missing"
     THEN /\ stdout' = Append(stdout, MissingDiagnostic)
          /\ exit_status' = 1
          /\ pc' = "exited"
     ELSE /\ stdout' = stdout \o <<Header, Separator>>
          /\ exit_status' = exit_status
          /\ pc' = "open"
  /\ error_count' = 0
  /\ current_error_lines' = <<>>
  /\ processing_error' = FALSE
  /\ error_blocks' = <<>>
  /\ UNCHANGED <<log, have_error, have_error_before, pos, error_summaries, stderr,
                 touched, result>>
  /\ RestUnchanged

\* Line 238: open(log_path, 'r', ...).  A file that cannot be opened raises
\* OSError, which nothing catches: the traceback goes to standard error and the
\* process ends with status 1.
OpenLog ==
  /\ pc = "open"
  /\ IF log.state = "unreadable"
     THEN /\ stderr' = Append(stderr, <<"Traceback (most recent call last): ", "OSError">>)
          /\ exit_status' = 1
          /\ pc' = "exited"
     ELSE /\ stderr' = stderr
          /\ exit_status' = exit_status
          /\ pc' = "loop"
  /\ pos' = 1
  /\ UNCHANGED <<log, have_error, have_error_before, error_count, current_error_lines,
                 processing_error, error_blocks, error_summaries, stdout, touched,
                 result>>
  /\ RestUnchanged

\* Lines 239-263: one iteration of the loop over the file's lines.
ReadLine ==
  /\ pc = "loop"
  /\ pos <= Len(log.content)
  /\ LET s == process_line(loop_state, rstrip_nl(log.content[pos]))
     IN /\ error_count' = s.error_count
        /\ current_error_lines' = s.current_error_lines
        /\ processing_error' = s.processing_error
        /\ error_blocks' = s.error_blocks
  /\ pos' = pos + 1
  /\ UNCHANGED <<log, have_error, have_error_before, pc, error_summaries, stdout,
                 stderr, touched, result, exit_status>>
  /\ RestUnchanged

\* Lines 265-270: the end of the file, the last block and the empty summaries.
EndOfFile ==
  /\ pc = "loop"
  /\ pos > Len(log.content)
  /\ error_blocks' = flush_last_block(loop_state)
  /\ error_summaries' = <<>>
  /\ pc' = "report"
  /\ UNCHANGED <<log, have_error, have_error_before, pos, error_count,
                 current_error_lines, processing_error, stdout, stderr, touched,
                 result, exit_status>>
  /\ RestUnchanged

\* Lines 273-284: one iteration of the loop over the blocks.
ReportBlock ==
  /\ pc = "report"
  /\ Len(error_summaries) < Len(error_blocks)
  /\ LET idx == Len(error_summaries) + 1
         block == error_blocks[idx]
         cls == analyze_error_block(block, idx)
     IN /\ stdout' = stdout \o block_output(idx, block, cls)
        /\ error_summaries' = Append(error_summaries, <<cls.error_type, cls.suggestion>>)
  /\ UNCHANGED <<log, have_error, have_error_before, pc, pos, error_count,
                 current_error_lines, processing_error, error_blocks, stderr, touched,
                 result, exit_status>>
  /\ RestUnchanged

\* Mutant of Summary: Path('have_error').touch(exist_ok=False), which raises
\* FileExistsError, caught by nothing, when the file is there already.
Summary_touch_exclusive ==
  /\ pc = "report"
  /\ Len(error_summaries) = Len(error_blocks)
  /\ IF errors_found(error_count) /\ have_error
     THEN /\ stdout' = stdout \o SubSeq(totals_output(error_count), 1, 2)
          /\ stderr' = Append(stderr, <<"Traceback (most recent call last): ", "FileExistsError">>)
          /\ result' = result
          /\ exit_status' = 1
     ELSE /\ stdout' = stdout \o totals_output(error_count)
                              \o summary_output(error_count, error_summaries)
          /\ stderr' = stderr
          /\ result' = error_count
          /\ exit_status' = main_exit_status(error_count)
  /\ have_error' = IF errors_found(error_count) THEN touch(have_error) ELSE have_error
  /\ touched' = errors_found(error_count)
  /\ pc' = "exited"
  /\ UNCHANGED <<log, have_error_before, pos, error_count, current_error_lines,
                 processing_error, error_blocks, error_summaries>>
  /\ RestUnchanged

\* Mutant of Summary: have_error is removed when no error was found.
Summary_remove_when_clean ==
  /\ pc = "report"
  /\ Len(error_summaries) = Len(error_blocks)
  /\ stdout' = stdout \o totals_output(error_count)
                      \o summary_output(error_count, error_summaries)
  /\ have_error' = errors_found(error_count)
  /\ touched' = errors_found(error_count)
  /\ result' = error_count
  /\ exit_status' = main_exit_status(error_count)
  /\ pc' = "exited"
  /\ UNCHANGED <<log, have_error_before, pos, error_count, current_error_lines,
                 processing_error, error_blocks, error_summaries, stderr>>
  /\ RestUnchanged

\* Lines 286-310 and 313-320: the totals, the marker file, the final summary, the
\* return to main and the end of the process.
Summary ==
  /\ pc = "report"
  /\ Len(error_summaries) = Len(error_blocks)
  /\ stdout' = stdout \o totals_output(error_count)
                      \o summary_output(error_count, error_summaries)
  /\ have_error' = IF errors_found(error_count) THEN touch(have_error) ELSE have_error
  /\ touched' = errors_found(error_count)
  /\ result' = error_count
  /\ exit_status' = main_exit_status(error_count)
  /\ pc' = "exited"
  /\ UNCHANGED <<log, have_error_before, pos, error_count, current_error_lines,
                 processing_error, error_blocks, error_summaries, stderr>>
  /\ RestUnchanged

\* The process is gone and the next build starts: the old log is removed, the
\* rest of the working directory stays as it is.
Finish ==
  /\ pc = "exited"
  /\ log' = NoLog
  /\ pc' = "idle"
  /\ pos' = 1
  /\ error_count' = 0
  /\ current_error_lines' = <<>>
  /\ processing_error' = FALSE
  /\ error_blocks' = <<>>
  /\ error_summaries' = <<>>
  /\ stdout' = <<>>
  /\ stderr' = <<>>
  /\ touched' = FALSE
  /\ result' = -1
  /\ exit_status' = -1
  /\ UNCHANGED <<have_error, have_error_before>>
  /\ RestUnchanged

Next ==
  \/ Run
  \/ CheckExists
  \/ OpenLog
  \/ ReadLine
  \/ EndOfFile
  \/ ReportBlock
  \/ Summary
  \/ Finish

Spec == Init /\ [][Next]_vars

-----------------------------------------------------------------------------
(* The classifier run twice on the same log *)

\* A working directory with or without have_error, and no process.
InitTwice ==
  /\ log = NoLog
  /\ have_error \in BOOLEAN
  /\ have_error_before = have_error
  /\ pc = "idle"
  /\ NoProcess
  /\ RestInit

\* The process has ended and the classifier is started again, on the log and
\* in the working directory as the first run left them.
RunAgain ==
  /\ pc = "exited"
  /\ ~previous.ran
  /\ previous' = [ran |-> TRUE, stdout |-> stdout, have_error |-> have_error]
  /\ have_error_before' = have_error
  /\ pc' = "check"
  /\ pos' = 1
  /\ error_count' = 0
  /\ current_error_lines' = <<>>
  /\ processing_error' = FALSE
  /\ error_blocks' = <<>>
  /\ error_summaries' = <<>>
  /\ stdout' = <<>>
  /\ stderr' = <<>>
  /\ touched' = FALSE
  /\ result' = -1
  /\ exit_status' = -1
  /\ UNCHANGED <<log, have_error>>
  /\ OtherScriptsUnchanged

NextTwice ==
  \/ Run
  \/ CheckExists
  \/ OpenLog
  \/ ReadLine
  \/ EndOfFile
  \/ ReportBlock
  \/ Summary
  \/ RunAgain

SpecTwice == InitTwice /\ [][NextTwice]_vars

\* No classifier runs, and none has run.
ClassifierIdle ==
  /\ log = NoLog
  /\ have_error = FALSE
  /\ have_error_before = FALSE
  /\ pc = "idle"
  /\ NoProcess
  /\ previous = NoPrevious

\* What a step of another script leaves alone.
ClassifierUnchanged ==
  UNCHANGED <<log, have_error, have_error_before, pc, pos, error_count,
              current_error_lines, processing_error, error_blocks, error_summaries,
              stdout, stderr, touched, result, exit_status, previous>>

-----------------------------------------------------------------------------
(* clean.py: removing what a build left behind *)

\* How many of the paths below exist when clean.py starts.
MaxPaths == 2

\* The defaults of --kernel-dir and --build-dir.
kernel_dir == "kernel"
build_dir == "build"

toolchains == <<"~/clang", "~/gcc-64", "~/gcc-32">>

temp_files == <<"boot.img", "magiskboot", "nohup.out">>

env_vars ==
  <<"CMD_PATH", "CMD_CC", "CMD_CLANG_TRIPLE", "CMD_CROSS_COMPILE",
    "CMD_CROSS_COMPILE_ARM32", "USE_CCACHE", "CLANG_PATH", "HOMES",
    "KVER", "SWAP_FILE", "SUBLEVEL", "PATCHLEVEL", "VERSION", "GCC_DIR",
    "FILE", "FILE_NAME", "MATCHED_DIR", "FOLDER", "FOLDER_NAME",
    "GCC64", "GCC32", "NEED_GCC", "AOSP_CLANG_URL", "OTHER_CLANG_URL",
    "AOSP_GCC64_URL", "AOSP_GCC32_URL", "AOSP_GCC_BRANCH",
    "OTHER_GCC64_URL", "OTHER_GCC32_URL", "EXTRA_ARGS", "make_args",
    "SAFE_EXTRA_ARGS", "EXTRA_CMD", "FMT", "HOST_ARCH">>

\* The paths a working directory and a home directory may hold: the ones the
\* script looks at and one it does not.
Paths ==
  {kernel_dir, build_dir, "AnyKernel3", "out"}
    \cup {toolchains[i] : i \in DOMAIN toolchains}
    \cup {temp_files[i] : i \in DOMAIN temp_files}

\* The names an environment may define: two listed ones and one that is not.
EnvironNames == {"CMD_CC", "HOST_ARCH", "PATH"}

\* The outcomes of running "ccache -C": exit status 0, another exit status,
\* or no such program (subprocess.run raises FileNotFoundError).
CcacheOutcomes == {"cleared", "failed", "not installed"}

PackageManagers == {"apt", "pacman", "unknown"}

Traceback == <<"Traceback (most recent call last):">>

\* if path.exists(): print(label + path); remove it
remove_existing(c, label, path) ==
  IF path \in c.fs
    THEN [c EXCEPT !.stdout = Append(@, <<label, path>>), !.fs = @ \ {path}]
    ELSE c

RECURSIVE remove_each(_, _, _, _)
remove_each(c, label, paths, i) ==
  IF i > Len(paths) THEN c
  ELSE remove_each(remove_existing(c, label, paths[i]), label, paths, i + 1)

clean_kernel_source(c, dir) == remove_existing(c, "Removing kernel directory: ", dir)

clean_build_artifacts(c, dir) == remove_existing(c, "Removing build directory: ", dir)

clean_toolchains(c) == remove_each(c, "Removing toolchain: ", toolchains, 1)

clean_anykernel3(c) == remove_existing(c, "Removing AnyKernel3 directory: ", "AnyKernel3")

clean_temp_files(c) == remove_each(c, "Removing temporary file: ", temp_files, 1)

\* The lines clean_env_vars prints in an environment: one per listed variable
\* that is defined, in the order of the list.
unset_lines(environ) ==
  LET present == SelectSeq(env_vars, LAMBDA var : var \in environ)
  IN  [i \in 1..Len(present) |-> <<"unset ", present[i]>>]

clean_env_vars(c) == [c EXCEPT !.stdout = @ \o unset_lines(c.environ)]

clean_all(c) ==
  LET c0 == [c EXCEPT !.stdout = Append(@, <<"Cleaning all build artifacts...">>)]
      c1 == clean_kernel_source(c0, kernel_dir)
      c2 == clean_build_artifacts(c1, build_dir)
      c3 == clean_toolchains(c2)
      c4 == clean_anykernel3(c3)
      c5 == clean_temp_files(c4)
      c6 == clean_env_vars(c5)
  IN  [c6 EXCEPT !.stdout = Append(@, <<"Clean completed!">>)]

\* The removals of the branch without --all, lines 168-174.
clean_default(c) ==
  LET c1 == clean_kernel_source(c, kernel_dir)
      c2 == clean_build_artifacts(c1, build_dir)
      c3 == clean_anykernel3(c2)
      c4 == clean_temp_files(c3)
  IN  IF c.args.toolchains THEN clean_toolchains(c4) ELSE c4

\* Where main goes after the removals and after clean_ccache.
after_removals(c) ==
  IF c.args.all \/ c.args.ccache THEN "ccache"
  ELSE IF c.args.env THEN "env" ELSE "pkg"

after_ccache(c) == IF ~c.args.all /\ c.args.env THEN "env" ELSE "pkg"

\* clean.py is started with some arguments, in some directory and environment.
CleanerStarts ==
  {[pc |-> "start", args |-> a, fs |-> f, environ |-> e,
    stdout |-> <<>>, stderr |-> <<>>, exit_status |-> -1] :
      a \in [all : BOOLEAN, toolchains : BOOLEAN, ccache : BOOLEAN, env : BOOLEAN],
      f \in {s \in SUBSET Paths : Cardinality(s) <= MaxPaths},
      e \in SUBSET EnvironNames}

InitClean ==
  /\ ClassifierIdle
  /\ cleaner \in CleanerStarts
  /\ extraction = NoExtraction
  /\ kconfig = NoConfigRun
  /\ patcher = NoPatcher

\* main with --all: clean_all, line 165.
CleanAll ==
  /\ cleaner.pc = "start"
  /\ cleaner.args.all
  /\ cleaner' = [clean_all(cleaner) EXCEPT !.pc = after_removals(cleaner)]
  /\ ClassifierUnchanged
  /\ UNCHANGED <<extraction, kconfig, patcher>>

\* main without --all: the removals, lines 168-174.
CleanDefault ==
  /\ cleaner.pc = "start"
  /\ ~cleaner.args.all
  /\ cleaner' = [clean_default(cleaner) EXCEPT !.pc = after_removals(cleaner)]
  /\ ClassifierUnchanged
  /\ UNCHANGED <<extraction, kconfig, patcher>>

\* clean_ccache, lines 70-74 (called at line 166 or 177).
CleanCcache ==
  /\ cleaner.pc = "ccache"
  /\ \E outcome \in CcacheOutcomes :
       cleaner' =
         CASE outcome = "cleared" ->
                [cleaner EXCEPT !.stdout = Append(@, <<"Ccache cleared">>),
                                !.pc = after_ccache(cleaner)]
           [] outcome = "failed" ->
                [cleaner EXCEPT !.pc = after_ccache(cleaner)]
           [] outcome = "not installed" ->
                [cleaner EXCEPT !.stderr = Append(@, Traceback),
                                !.pc = "exited", !.exit_status = 1]
  /\ ClassifierUnchanged
  /\ UNCHANGED <<extraction, kconfig, patcher>>

\* main with --env and without --all, lines 179-182.
CleanEnv ==
  /\ cleaner.pc = "env"
  /\ cleaner' =
       [clean_env_vars(cleaner) EXCEPT
          !.stderr = Append(@, <<"# Run: eval $(python3 clean.py --env)">>),
          !.pc = "exited", !.exit_status = 0]
  /\ ClassifierUnchanged
  /\ UNCHANGED <<extraction, kconfig, patcher>>

\* The end of main, lines 185-186.
DetectPackageManager ==
  /\ cleaner.pc = "pkg"
  /\ \E pkg_mgr \in PackageManagers :
       cleaner' = [cleaner EXCEPT
                     !.stdout = Append(@, <<"Detected package manager: ", pkg_mgr>>),
                     !.pc = "exited", !.exit_status = 0]
  /\ ClassifierUnchanged
  /\ UNCHANGED <<extraction, kconfig, patcher>>

NextClean ==
  \/ CleanAll
  \/ CleanDefault
  \/ CleanCcache
  \/ CleanEnv
  \/ DetectPackageManager

SpecClean == InitClean /\ [][NextClean]_vars


-----------------------------------------------------------------------------
(* rekernel/patch.py: safe_extract *)

\* A string is the sequence of its characters, a path the sequence of its
\* components from the root, each component a string.

\* How many members an archive has at most.
MaxMembers == 2

SLASH == "/"
DOTDOT == <<".", ".">>
DOT == <<".">>

\* The components of a string as pathlib parses it: split at "/", empty and
\* "." components dropped.
RECURSIVE components(_, _, _, _)
components(s, i, current, done) ==
  LET closed == IF current = <<>> \/ current = DOT THEN done ELSE Append(done, current)
  IN  IF i > Len(s) THEN closed
      ELSE IF s[i] = SLASH THEN components(s, i + 1, <<>>, closed)
      ELSE components(s, i + 1, Append(current, s[i]), done)

is_absolute(s) == s # <<>> /\ s[1] = SLASH

\* extract_path / member: an absolute member replaces the left side.
joinpath(path, member) ==
  IF is_absolute(member) THEN components(member, 1, <<>>, <<>>)
  ELSE path \o components(member, 1, <<>>, <<>>)

parent(path) == IF path = <<>> THEN <<>> ELSE SubSeq(path, 1, Len(path) - 1)

\* Path.resolve(): ".." steps to the parent, a symbolic link is followed.
RECURSIVE resolve_from(_, _, _, _)
resolve_from(links, done, path, i) ==
  IF i > Len(path) THEN done
  ELSE LET step == IF path[i] = DOTDOT THEN parent(done) ELSE Append(done, path[i])
           real == IF step \in DOMAIN links THEN links[step] ELSE step
       IN  resolve_from(links, real, path, i + 1)

resolve(links, path) == resolve_from(links, <<>>, path, 1)

\* str(path)
RECURSIVE str_from(_, _)
str_from(path, i) ==
  IF i > Len(path) THEN <<>> ELSE <<SLASH>> \o path[i] \o str_from(path, i + 1)

str(path) == IF path = <<>> THEN <<SLASH>> ELSE str_from(path, 1)

startswith(s, prefix) ==
  Len(s) >= Len(prefix) /\ SubSeq(s, 1, Len(prefix)) = prefix

endswith(s, suffix) ==
  Len(s) >= Len(suffix) /\ SubSeq(s, Len(s) - Len(suffix) + 1, Len(s)) = suffix

\* The check of line 136 with the separator left out of the prefix.
stays_within_without_separator(member_path, extract_path_resolved) ==
  startswith(str(member_path), str(extract_path_resolved))

\* The condition whose negation raises at line 136.
stays_within(member_path, extract_path_resolved) ==
  startswith(str(member_path), str(extract_path_resolved) \o <<SLASH>>)

\* The prefixes of a path, the path itself included and the root left out.
prefixes(path) == {SubSeq(path, 1, k) : k \in 1..Len(path)}

\* path.mkdir(parents=True, exist_ok=True): fails when a prefix is a file,
\* else creates the prefixes that are missing.
mkdir_fails(fs, path) == prefixes(path) \cap fs.files # {}
mkdir(fs, path) == [fs EXCEPT !.dirs = @ \cup prefixes(path)]

\* open(path, 'wb') and write: fails on a directory, else the file exists.
open_fails(fs, path) == path \in fs.dirs
write_file(fs, path) == [fs EXCEPT !.files = @ \cup {path}]

\* The temporary directory main extracts into, "/t" here, and what main has
\* put in it: the directory cocci ("c") and the archive src.zip ("z").
extract_path == << <<"t">> >>

TempDir ==
  [dirs |-> {<< <<"t">> >>, << <<"t">>, <<"c">> >>, << <<"e">> >>},
   files |-> {<< <<"t">>, <<"z">> >>},
   links |-> <<>>]

\* The same with a symbolic link "/t/l" to the directory "/e" outside it.
TempDirWithLink ==
  [TempDir EXCEPT !.links = (<< <<"t">>, <<"l">> >> :> << <<"e">> >>)]

\* Member names: "a", "d/", "d/b", "z", "c", "a/b", "d/../a", ".",
\* "../tt/a", "/e/a", "l/a", "d/../../e/a".
Members ==
  { <<"a">>,
    <<"d", "/">>,
    <<"d", "/", "b">>,
    <<"z">>,
    <<"c">>,
    <<"a", "/", "b">>,
    <<"d", "/", ".", ".", "/", "a">>,
    <<".">>,
    <<".", ".", "/", "t", "t", "/", "a">>,
    <<"/", "e", "/", "a">>,
    <<"l", "/", "a">>,
    <<"d", "/", ".", ".", "/", ".", ".", "/", "e", "/", "a">> }

RECURSIVE SeqsUpTo(_, _)
SeqsUpTo(S, n) ==
  IF n = 0 THEN {<<>>}
  ELSE LET shorter == SeqsUpTo(S, n - 1)
       IN  shorter \cup {Append(s, x) : s \in shorter, x \in S}

Archives == SeqsUpTo(Members, MaxMembers)

\* main calls safe_extract(z, temp_path), line 168.
ExtractionStarts ==
  {[pc |-> "extracting", namelist |-> n, next |-> 1, fs0 |-> f, fs |-> f,
    written |-> {}, raised |-> "none"] :
      n \in Archives, f \in {TempDir, TempDirWithLink}}

InitExtract ==
  /\ ClassifierIdle
  /\ cleaner = NoCleaner
  /\ extraction \in ExtractionStarts
  /\ kconfig = NoConfigRun
  /\ patcher = NoPatcher

\* The member the loop is at and the paths of lines 131-133.
member == extraction.namelist[extraction.next]
member_path == resolve(extraction.fs.links, joinpath(extract_path, member))
extract_path_resolved == resolve(extraction.fs.links, extract_path)
AtMember == extraction.pc = "extracting" /\ extraction.next <= Len(extraction.namelist)

\* The member escapes: ValueError, lines 136-137.
RejectMember ==
  /\ AtMember
  /\ ~stays_within(member_path, extract_path_resolved)
  /\ extraction' = [extraction EXCEPT !.pc = "raised", !.raised = "ValueError"]
  /\ ClassifierUnchanged
  /\ UNCHANGED <<cleaner, kconfig, patcher>>

\* mkdir or open fails: the exception leaves safe_extract, lines 140 and 144.
\* What mkdir created before open failed stays.
ExtractFails ==
  /\ AtMember
  /\ stays_within(member_path, extract_path_resolved)
  /\ \/ /\ mkdir_fails(extraction.fs, parent(member_path))
        /\ extraction' = [extraction EXCEPT !.pc = "raised", !.raised = "OSError"]
     \/ /\ ~mkdir_fails(extraction.fs, parent(member_path))
        /\ ~endswith(member, <<SLASH>>)
        /\ open_fails(mkdir(extraction.fs, parent(member_path)), member_path)
        /\ extraction' = [extraction EXCEPT
                            !.fs = mkdir(@, parent(member_path)),
                            !.pc = "raised", !.raised = "OSError"]
  /\ ClassifierUnchanged
  /\ UNCHANGED <<cleaner, kconfig, patcher>>

\* One turn of the loop that ends normally, lines 129-145.
ExtractMember ==
  /\ AtMember
  /\ stays_within(member_path, extract_path_resolved)
  /\ ~mkdir_fails(extraction.fs, parent(member_path))
  /\ LET made == mkdir(extraction.fs, parent(member_path))
     IN  IF endswith(member, <<SLASH>>)
           THEN extraction' = [extraction EXCEPT !.fs = made, !.next = @ + 1]
           ELSE /\ ~open_fails(made, member_path)
                /\ extraction' = [extraction EXCEPT
                                    !.fs = write_file(made, member_path),
                                    !.written = @ \cup {member_path},
                                    !.next = @ + 1]
  /\ ClassifierUnchanged
  /\ UNCHANGED <<cleaner, kconfig, patcher>>

\* The list is exhausted and safe_extract returns.
ExtractReturn ==
  /\ extraction.pc = "extracting"
  /\ extraction.next > Len(extraction.namelist)
  /\ extraction' = [extraction EXCEPT !.pc = "returned"]
  /\ ClassifierUnchanged
  /\ UNCHANGED <<cleaner, kconfig, patcher>>

NextExtract ==
  \/ RejectMember
  \/ ExtractFails
  \/ ExtractMember
  \/ ExtractReturn

SpecExtract == InitExtract /\ [][NextExtract]_vars

-----------------------------------------------------------------------------
(* lxc/config.py and nethunter/config.py: checking and setting kernel options *)

\* The two scripts differ in their lists and in two messages only.  A line
\* is the sequence of its tokens; an option name is one token.

\* How many lines the config file has at most when a script starts.
MaxConfigLines == 1

\* CONFIGS_ON of lxc/config.py, line by line.
lxc_CONFIGS_ON ==
  << <<>>, <<"CONFIG_NAMESPACES">>, <<"CONFIG_MULTIUSER">>, <<"CONFIG_NET">>,
    <<"CONFIG_NET_NS">>, <<"CONFIG_PID_NS">>, <<"CONFIG_POSIX_MQUEUE">>,
    <<"CONFIG_IPC_NS">>, <<"CONFIG_UTS_NS">>, <<"CONFIG_CGROUPS">>,
    <<"CONFIG_SCHED_AUTOGROUP">>, <<"CONFIG_CGROUP_CPUACCT">>,
    <<"CONFIG_CGROUP_DEVICE">>, <<"CONFIG_CGROUP_FREEZER">>, <<"CONFIG_CGROUP_SCHED">>,
    <<"CONFIG_DEBUG_BLK_CGROUP">>, <<"CONFIG_NETFILTER_XT_MATCH_BPF">>,
    <<"CONFIG_CPUSETS">>, <<"CONFIG_MEMCG">>, <<"CONFIG_KEYS">>, <<"CONFIG_NETDEVICES">>,
    <<"CONFIG_NET_CORE">>, <<"CONFIG_VETH">>, <<"CONFIG_IPV6">>, <<"CONFIG_IP6_NF_NAT">>,
    <<"CONFIG_IP6_NF_TARGET_MASQUERADE">>, <<"CONFIG_BRIDGE">>, <<"CONFIG_NETFILTER">>,
    <<"CONFIG_INET">>, <<"CONFIG_NETFILTER_ADVANCED">>, <<"CONFIG_BRIDGE_NETFILTER">>,
    <<"CONFIG_IP_NF_FILTER">>, <<"CONFIG_IP_NF_IPTABLES">>, <<"CONFIG_IP_NF_NAT">>,
    <<"CONFIG_IP_NF_TARGET_MASQUERADE">>, <<"CONFIG_NETFILTER_XTABLES">>,
    <<"CONFIG_NETFILTER_XT_MATCH_ADDRTYPE">>, <<"CONFIG_NETFILTER_XT_MATCH_CONNTRACK">>,
    <<"CONFIG_NF_CONNTRACK">>, <<"CONFIG_NETFILTER_XT_MATCH_IPVS">>, <<"CONFIG_IP_VS">>,
    <<"CONFIG_NETFILTER_XT_MARK">>, <<"CONFIG_NF_NAT">>, <<"CONFIG_POSIX_MQUEUE">>,
    <<"CONFIG_NF_NAT_IPV6">>, <<"CONFIG_NF_NAT_IPV4">>, <<"CONFIG_NF_CONNTRACK_IPV4">>,
    <<"CONFIG_NF_CONNTRACK_IPV6">>, <<"CONFIG_NF_NAT_NEEDED">>, <<"CONFIG_BPF">>,
    <<"CONFIG_CGROUP_BPF">>, <<"CONFIG_BPF_SYSCALL">>, <<"CONFIG_USER_NS">>,
    <<"CONFIG_SECCOMP">>, <<"CONFIG_SECCOMP_FILTER">>, <<"CONFIG_CGROUP_PIDS">>,
    <<"CONFIG_CGROUP_DEBUG">>, <<"CONFIG_SWAP">>, <<"CONFIG_MEMCG_SWAP">>,
    <<"CONFIG_MEMCG_SWAP_ENABLED">>, <<"CONFIG_BLOCK">>, <<"CONFIG_IOSCHED_CFQ">>,
    <<"CONFIG_BLK_CGROUP">>, <<"CONFIG_CFQ_GROUP_IOSCHED">>,
    <<"CONFIG_BLK_DEV_THROTTLING">>, <<"CONFIG_PERF_EVENTS">>, <<"CONFIG_CGROUP_PERF">>,
    <<"CONFIG_HUGETLBFS">>, <<"CONFIG_HUGETLB_PAGE">>, <<"CONFIG_CGROUP_HUGETLB">>,
    <<"CONFIG_NET_SCHED">>, <<"CONFIG_NET_CLS_CGROUP">>, <<"CONFIG_CGROUP_NET_PRIO">>,
    <<"CONFIG_FAIR_GROUP_SCHED">>, <<"CONFIG_RT_GROUP_SCHED">>,
    <<"CONFIG_IP_NF_TARGET_REDIRECT">>, <<"CONFIG_IP_VS_NFCT">>,
    <<"CONFIG_IP_VS_PROTO_TCP">>, <<"CONFIG_IP_VS_PROTO_UDP">>, <<"CONFIG_IP_VS_RR">>,
    <<"CONFIG_SECURITY">>, <<"CONFIG_SECURITY_SELINUX">>, <<"CONFIG_SECURITY_APPARMOR">>,
    <<"CONFIG_EXT3_FS">>, <<"CONFIG_EXT3_FS_POSIX_ACL">>, <<"CONFIG_EXT3_FS_SECURITY">>,
    <<"CONFIG_EXT4_FS">>, <<"CONFIG_EXT4_FS_POSIX_ACL">>, <<"CONFIG_EXT4_FS_SECURITY">>,
    <<"CONFIG_VXLAN">>, <<"CONFIG_BRIDGE">>, <<"CONFIG_BRIDGE_VLAN_FILTERING">>,
    <<"CONFIG_VLAN_8021Q">>, <<"CONFIG_CRYPTO">>, <<"CONFIG_CRYPTO_AEAD">>,
    <<"CONFIG_CRYPTO_GCM">>, <<"CONFIG_CRYPTO_SEQIV">>, <<"CONFIG_CRYPTO_GHASH">>,
    <<"CONFIG_CHECKPOINT_RESTORE">>, <<"CONFIG_XFRM">>, <<"CONFIG_XFRM_USER">>,
    <<"CONFIG_XFRM_ALGO">>, <<"CONFIG_INET_ESP">>, <<"CONFIG_INET_XFRM_MODE_TRANSPORT">>,
    <<"CONFIG_IPVLAN">>, <<"CONFIG_MACVLAN">>, <<"CONFIG_NET_L3_MASTER_DEV">>,
    <<"CONFIG_DUMMY">>, <<"CONFIG_NF_NAT_FTP">>, <<"CONFIG_NF_CONNTRACK_FTP">>,
    <<"CONFIG_NF_NAT_TFTP">>, <<"CONFIG_NF_CONNTRACK_TFTP">>, <<"CONFIG_AUFS_FS">>,
    <<"CONFIG_BTRFS_FS">>, <<"CONFIG_BTRFS_FS_POSIX_ACL">>, <<"CONFIG_MD">>,
    <<"CONFIG_BLK_DEV_DM">>, <<"CONFIG_DM_THIN_PROVISIONING">>, <<"CONFIG_OVERLAY_FS">>,
    <<"CONFIG_PACKET">>, <<"CONFIG_PACKET_DIAG">>, <<"CONFIG_NETLINK_DIAG">>,
    <<"CONFIG_FHANDLE">>, <<"CONFIG_UNIX">>, <<"CONFIG_UNIX_DIAG">>,
    <<"CONFIG_NETFILTER_XT_TARGET_CHECKSUM">>, <<"CONFIG_CFS_BANDWIDTH">>, <<>>>>

\* CONFIGS_OFF of lxc/config.py, line by line.
lxc_CONFIGS_OFF ==
  << <<>>, <<"CONFIG_ANDROID_PARANOID_NETWORK">>, <<"CONFIG_SCHED_WALT">>, <<>>>>

\* CONFIGS_EQ of lxc/config.py, line by line.
lxc_CONFIGS_EQ ==
  << <<>> >>

\* CONFIGS_ON of nethunter/config.py, line by line.
nethunter_CONFIGS_ON ==
  << <<>>, <<"CONFIG_MODULES">>, <<"CONFIG_MODULE_FORCE_LOAD">>,
    <<"CONFIG_MODULE_UNLOAD">>, <<"CONFIG_MODVERSIONS">>, <<>>, <<"CONFIG_SYSVIPC">>,
    <<"CONFIG_SYSVIPC_SYSCTL">>, <<"CONFIG_BUILD_ARM64_APPENDED_DTB_IMAGE">>,
    <<"CONFIG_IMG_GZ_DTB">>, <<"CONFIG_BUILD_ARM64_DT_OVERLAY">>,
    <<"CONFIG_POSIX_MQUEUE">>, <<>>, <<"CONFIG_IKCONFIG">>, <<"CONFIG_CPUSETS">>,
    <<"CONFIG_AUTOFS4_FS">>, <<"CONFIG_TMPFS_XATTR">>, <<"CONFIG_TMPFS_POSIX_ACL">>,
    <<"CONFIG_CGROUP_DEVICE">>, <<"CONFIG_CGROUPS">>, <<"CONFIG_NAMESPACES">>,
    <<"CONFIG_UTS_NS">>, <<"CONFIG_IPC_NS">>, <<"CONFIG_USER_NS">>, <<"CONFIG_PID_NS">>,
    <<"CONFIG_NET_NS">>, <<"CONFIG_DEVTMPFS">>, <<"CONFIG_DEVTMPFS_MOUNT">>,
    <<"CONFIG_FSNOTIFY">>, <<"CONFIG_DNOTIFY">>, <<"CONFIG_INOTIFY_USER">>,
    <<"CONFIG_FANOTIFY">>, <<"CONFIG_FANOTIFY_ACCESS_PERMISSIONS">>, <<"CONFIG_BT">>,
    <<"CONFIG_BT_RFCOMM">>, <<"CONFIG_BT_RFCOMM_TTY">>, <<"CONFIG_BT_BNEP">>,
    <<"CONFIG_BT_BNEP_MC_FILTER">>, <<"CONFIG_BT_BNEP_PROTO_FILTER">>,
    <<"CONFIG_BT_HIDP">>, <<"CONFIG_BT_HCIBTUSB_BCM">>, <<"CONFIG_BT_HCIBTUSB_RTL">>,
    <<"CONFIG_BT_HCIUART">>, <<"CONFIG_BT_HCIBCM203X">>, <<"CONFIG_BT_HCIBPA10X">>,
    <<"CONFIG_BT_HCIBFUSB">>, <<"CONFIG_CFG80211_WEXT">>, <<"CONFIG_MAC80211">>,
    <<"CONFIG_MAC80211_MESH">>, <<"CONFIG_DNS_RESOLVER">>, <<"CONFIG_FHANDLE">>,
    <<"CONFIG_EPOLL">>, <<"CONFIG_SIGNALFD">>, <<"CONFIG_TIMERFD">>,
    <<"CONFIG_TMPFS_POSIX_ACL">>, <<"CONFIG_USB_RTL8150">>, <<"CONFIG_USB_RTL8152">>,
    <<"CONFIG_MEDIA_DIGITAL_TV_SUPPORT">>, <<"CONFIG_MEDIA_SDR_SUPPORT">>,
    <<"CONFIG_MEDIA_TUNER_MSI001">>, <<"CONFIG_USB_AIRSPY">>, <<"CONFIG_USB_HACKRF">>,
    <<"CONFIG_USB_MSI2500">>, <<"CONFIG_DVB_RTL2830">>, <<"CONFIG_DVB_RTL2832">>,
    <<"CONFIG_DVB_RTL2832_SDR">>, <<"CONFIG_DVB_SI2168">>, <<"CONFIG_DVB_ZD1301_DEMOD">>,
    <<>>, <<"CONFIG_MEDIA_TUNER_R820T">>, <<"CONFIG_HIDRAW">>, <<"CONFIG_USB_HID">>,
    <<"CONFIG_HID_PID">>, <<"CONFIG_HIDRAW">>, <<"CONFIG_USB_HIDDEV">>,
    <<"CONFIG_I2C_HID">>, <<"CONFIG_USB_OHCI_LITTLE_ENDIAN">>, <<"CONFIG_USB_SUPPORT">>,
    <<"CONFIG_USB_COMMON">>, <<"CONFIG_USB_ARCH_HAS_HCD">>, <<"CONFIG_USB">>,
    <<"CONFIG_USB_ANNOUNCE_NEW_DEVICES">>, <<>>, <<"CONFIG_USB_SERIAL">>,
    <<"CONFIG_USB_SERIAL_CONSOLE">>, <<"CONFIG_USB_SERIAL_GENERIC">>,
    <<"CONFIG_USB_SERIAL_SIMPLE">>, <<"CONFIG_USB_SERIAL_CP210X">>,
    <<"CONFIG_USB_SERIAL_CH341">>, <<"CONFIG_USB_SERIAL_QCAUX">>,
    <<"CONFIG_USB_SERIAL_QUALCOMM">>, <<"CONFIG_USB_ACM">>, <<"CONFIG_USB_OTG">>,
    <<"CONFIG_USB_WDM">>, <<"CONFIG_USB_CONFIGFS_RMNET_BAM">>,
    <<"CONFIG_USB_CONFIGFS_MBIM_BAM">>, <<"CONFIG_USB_CONFIGFS_F_UAC1">>,
    <<"CONFIG_USB_CONFIGFS_F_UAC2">>, <<"CONFIG_USB_CONFIGFS_F_UVC">>,
    <<"CONFIG_USB_CONFIGFS_F_PRINTER">>, <<"CONFIG_USB_CONFIGFS_F_GSI">>,
    <<"CONFIG_USB_CONFIGFS_F_IPC">>, <<"CONFIG_USB_CONFIGFS_SERIAL">>,
    <<"CONFIG_USB_CONFIGFS_ACM">>, <<"CONFIG_USB_CONFIGFS_OBEX">>,
    <<"CONFIG_USB_CONFIGFS_NCM">>, <<"CONFIG_USB_CONFIGFS_ECM">>,
    <<"CONFIG_USB_CONFIGFS_ECM_SUBSET">>, <<"CONFIG_USB_CONFIGFS_RNDIS">>,
    <<"CONFIG_USB_CONFIGFS_EEM">>, <<"CONFIG_USB_CONFIGFS_MASS_STORAGE">>,
    <<"CONFIG_USB_LAN78XX">>, <<"CONFIG_WLAN_VENDOR_ATH">>, <<"CONFIG_CARL9170">>,
    <<"CONFIG_WLAN_VENDOR_MEDIATEK">>, <<"CONFIG_MT7601U">>,
    <<"CONFIG_WLAN_VENDOR_RALINK">>, <<"CONFIG_RT2X00">>, <<"CONFIG_RT2500USB">>,
    <<"CONFIG_RT73USB">>, <<"CONFIG_RT2800USB">>, <<"CONFIG_RT2800USB_RT33XX">>,
    <<"CONFIG_RT2800USB_RT35XX">>, <<"CONFIG_RT2800USB_RT3573">>,
    <<"CONFIG_RT2800USB_RT53XX">>, <<"CONFIG_RT2800USB_RT55XX">>,
    <<"CONFIG_RT2800USB_UNKNOWN">>, <<"CONFIG_WLAN_VENDOR_REALTEK">>,
    <<"CONFIG_RTL8187">>, <<"CONFIG_RTL_CARDS">>, <<"CONFIG_RTL8192CU">>,
    <<"CONFIG_RTL8XXXU_UNTESTED">>, <<"CONFIG_WLAN_VENDOR_ZYDAS">>,
    <<"CONFIG_USB_ZD1201">>, <<"CONFIG_ZD1211RW">>, <<"CONFIG_USB_NET_RNDIS_WLAN">>,
    <<"CONFIG_BT_HCIVHCI">>, <<"CONFIG_MACVLAN">>, <<"CONFIG_CHECKPOINT_RESTORE">>,
    <<"CONFIG_UNIX_DIAG">>, <<"CONFIG_PACKET_DIAG">>, <<"CONFIG_NETLINK_DIAG">>,
    <<"CONFIG_MEDIA_TUNER">>, <<>>>>

\* CONFIGS_OFF of nethunter/config.py, line by line.
nethunter_CONFIGS_OFF ==
  << <<>>, <<"CONFIG_DVB_AF9013">>, <<"CONFIG_MEDIA_SUBDRV_AUTOSELECT">>,
    <<"CONFIG_MEDIA_TUNER_SIMPLE">>, <<"CONFIG_MEDIA_TUNER_TDA18250">>,
    <<"CONFIG_MEDIA_TUNER_TDA8290">>, <<"CONFIG_MEDIA_TUNER_TDA827X">>,
    <<"CONFIG_MEDIA_TUNER_TDA18271">>, <<"CONFIG_MEDIA_TUNER_TDA9887">>,
    <<"CONFIG_MEDIA_TUNER_TEA5761">>, <<"CONFIG_MEDIA_TUNER_TEA5767">>,
    <<"CONFIG_MEDIA_TUNER_MT20XX">>, <<"CONFIG_MEDIA_TUNER_MT2060">>,
    <<"CONFIG_MEDIA_TUNER_MT2063">>, <<"CONFIG_MEDIA_TUNER_MT2266">>,
    <<"CONFIG_MEDIA_TUNER_MT2131">>, <<"CONFIG_MEDIA_TUNER_QT1010">>,
    <<"CONFIG_MEDIA_TUNER_XC2028">>, <<"CONFIG_MEDIA_TUNER_XC5000">>,
    <<"CONFIG_MEDIA_TUNER_XC4000">>, <<"CONFIG_MEDIA_TUNER_MXL5005S">>,
    <<"CONFIG_MEDIA_TUNER_MXL5007T">>, <<"CONFIG_MEDIA_TUNER_MC44S803">>,
    <<"CONFIG_MEDIA_TUNER_MAX2165">>, <<"CONFIG_MEDIA_TUNER_TDA18218">>,
    <<"CONFIG_MEDIA_TUNER_FC0011">>, <<"CONFIG_MEDIA_TUNER_FC0012">>,
    <<"CONFIG_MEDIA_TUNER_FC0013">>, <<"CONFIG_MEDIA_TUNER_TDA18212">>,
    <<"CONFIG_MEDIA_TUNER_FC2580">>, <<"CONFIG_MEDIA_TUNER_M88RS6000T">>,
    <<"CONFIG_MEDIA_TUNER_TUA9001">>, <<"CONFIG_MEDIA_TUNER_SI2157">>,
    <<"CONFIG_MEDIA_TUNER_IT913X">>, <<"CONFIG_MEDIA_TUNER_R820T">>,
    <<"CONFIG_MEDIA_TUNER_MXL301RF">>, <<"CONFIG_MEDIA_TUNER_QM1D1C0042">>,
    <<"CONFIG_MEDIA_TUNER_QM1D1B0004">>, <<"CONFIG_DVB_STB0899", SP>>,
    <<"CONFIG_DVB_STB6100", SP>>, <<"CONFIG_DVB_STV090x", SP>>,
    <<"CONFIG_DVB_STV0910", SP>>, <<"CONFIG_DVB_STV6110x", SP>>,
    <<"CONFIG_DVB_STV6111", SP>>, <<"CONFIG_DVB_MXL5XX", SP>>, <<"CONFIG_DVB_DRXK", SP>>,
    <<"CONFIG_DVB_TDA18271C2DD", SP>>, <<"CONFIG_DVB_SI2165", SP>>,
    <<"CONFIG_DVB_MN88472", SP>>, <<"CONFIG_DVB_MN88473", SP>>,
    <<"CONFIG_DVB_CX24110", SP>>, <<"CONFIG_DVB_CX24123", SP>>,
    <<"CONFIG_DVB_MT312", SP>>, <<"CONFIG_DVB_ZL10036", SP>>,
    <<"CONFIG_DVB_ZL10039", SP>>, <<"CONFIG_DVB_S5H1420", SP>>,
    <<"CONFIG_DVB_STV0288", SP>>, <<"CONFIG_DVB_STB6000", SP>>,
    <<"CONFIG_DVB_STV0299", SP>>, <<"CONFIG_DVB_STV6110", SP>>,
    <<"CONFIG_DVB_STV0900", SP>>, <<"CONFIG_DVB_TDA8083", SP>>,
    <<"CONFIG_DVB_TDA10086", SP>>, <<"CONFIG_DVB_TDA8261", SP>>,
    <<"CONFIG_DVB_VES1X93", SP>>, <<"CONFIG_DVB_TUNER_ITD1000", SP>>,
    <<"CONFIG_DVB_TUNER_CX24113", SP>>, <<"CONFIG_DVB_TDA826X", SP>>,
    <<"CONFIG_DVB_TUA6100", SP>>, <<"CONFIG_DVB_CX24116", SP>>,
    <<"CONFIG_DVB_CX24117", SP>>, <<"CONFIG_DVB_CX24120", SP>>,
    <<"CONFIG_DVB_SI21XX", SP>>, <<"CONFIG_DVB_TS2020", SP>>,
    <<"CONFIG_DVB_DS3000", SP>>, <<"CONFIG_DVB_MB86A16", SP>>,
    <<"CONFIG_DVB_TDA10071", SP>>, <<"CONFIG_DVB_SP8870", SP>>,
    <<"CONFIG_DVB_SP887X", SP>>, <<"CONFIG_DVB_CX22700", SP>>,
    <<"CONFIG_DVB_CX22702", SP>>, <<"CONFIG_DVB_S5H1432", SP>>,
    <<"CONFIG_DVB_DRXD", SP>>, <<"CONFIG_DVB_L64781", SP>>,
    <<"CONFIG_DVB_TDA1004X", SP>>, <<"CONFIG_DVB_NXT6000", SP>>,
    <<"CONFIG_DVB_MT352", SP>>, <<"CONFIG_DVB_ZL10353", SP>>,
    <<"CONFIG_DVB_DIB3000MB", SP>>, <<"CONFIG_DVB_DIB3000MC", SP>>,
    <<"CONFIG_DVB_DIB7000M", SP>>, <<"CONFIG_DVB_DIB7000P", SP>>,
    <<"CONFIG_DVB_DIB9000", SP>>, <<"CONFIG_DVB_TDA10048", SP>>,
    <<"CONFIG_DVB_EC100", SP>>, <<"CONFIG_DVB_STV0367", SP>>,
    <<"CONFIG_DVB_CXD2820R", SP>>, <<"CONFIG_DVB_CXD2841ER", SP>>,
    <<"CONFIG_DVB_CXD2880", SP>>, <<"CONFIG_DVB_VES1820", SP>>,
    <<"CONFIG_DVB_TDA10021", SP>>, <<"CONFIG_DVB_TDA10023", SP>>,
    <<"CONFIG_DVB_STV0297", SP>>, <<"CONFIG_DVB_NXT200X", SP>>,
    <<"CONFIG_DVB_OR51211", SP>>, <<"CONFIG_DVB_OR51132", SP>>,
    <<"CONFIG_DVB_BCM3510", SP>>, <<"CONFIG_DVB_LGDT330X", SP>>,
    <<"CONFIG_DVB_LGDT3305", SP>>, <<"CONFIG_DVB_LG2160", SP>>,
    <<"CONFIG_DVB_S5H1409", SP>>, <<"CONFIG_DVB_AU8522", SP>>,
    <<"CONFIG_DVB_AU8522_DTV", SP>>, <<"CONFIG_DVB_AU8522_V4L", SP>>,
    <<"CONFIG_DVB_S5H1411", SP>>, <<"CONFIG_DVB_S921", SP>>,
    <<"CONFIG_DVB_DIB8000", SP>>, <<"CONFIG_DVB_MB86A20S", SP>>,
    <<"CONFIG_DVB_TC90522", SP>>, <<"CONFIG_DVB_MN88443X", SP>>,
    <<"CONFIG_DVB_PLL", SP>>, <<"CONFIG_DVB_TUNER_DIB0070", SP>>,
    <<"CONFIG_DVB_TUNER_DIB0090", SP>>, <<"CONFIG_DVB_DRX39XYJ", SP>>,
    <<"CONFIG_DVB_LNBH25", SP>>, <<"CONFIG_DVB_LNBH29", SP>>,
    <<"CONFIG_DVB_LNBP21", SP>>, <<"CONFIG_DVB_LNBP22", SP>>,
    <<"CONFIG_DVB_ISL6405", SP>>, <<"CONFIG_DVB_ISL6421", SP>>,
    <<"CONFIG_DVB_ISL6423", SP>>, <<"CONFIG_DVB_A8293", SP>>,
    <<"CONFIG_DVB_LGS8GL5", SP>>, <<"CONFIG_DVB_LGS8GXX", SP>>,
    <<"CONFIG_DVB_ATBM8830", SP>>, <<"CONFIG_DVB_TDA665x", SP>>,
    <<"CONFIG_DVB_IX2505V", SP>>, <<"CONFIG_DVB_M88RS2000", SP>>,
    <<"CONFIG_DVB_AF9033", SP>>, <<"CONFIG_DVB_HORUS3A", SP>>,
    <<"CONFIG_DVB_ASCOT2E", SP>>, <<"CONFIG_DVB_HELENE", SP>>,
    <<"CONFIG_DVB_CXD2099", SP>>, <<"CONFIG_DVB_SP2", SP>>, <<>>>>

\* CONFIGS_EQ of nethunter/config.py, line by line.
nethunter_CONFIGS_EQ ==
  << <<>> >>

color_red(text) == <<"\\033[31m">> \o text \o <<"\\033[0m">>
color_green(text) == <<"\\033[32m">> \o text \o <<"\\033[0m">>
color_white(text) == <<"\\033[37m">> \o text \o <<"\\033[0m">>

\* parse_configs: the stripped lines that are not blank.
parse_configs(config_text) ==
  LET stripped == [i \in DOMAIN config_text |-> strip(config_text[i])]
      kept == SelectSeq(stripped, LAMBDA line : line # <<>>)
  IN  [i \in DOMAIN kept |-> kept[i][1]]

configs_on(script) ==
  IF script = "lxc" THEN parse_configs(lxc_CONFIGS_ON)
  ELSE parse_configs(nethunter_CONFIGS_ON)

configs_off(script) ==
  IF script = "lxc" THEN parse_configs(lxc_CONFIGS_OFF)
  ELSE parse_configs(nethunter_CONFIGS_OFF)

configs_eq(script) ==
  IF script = "lxc" THEN parse_configs(lxc_CONFIGS_EQ)
  ELSE parse_configs(nethunter_CONFIGS_EQ)


\* f.write(line + "\n") on a file opened with 'a'.
append_line(content, line) ==
  IF content.eol
    THEN [lines |-> Append(content.lines, line), eol |-> TRUE]
    ELSE [lines |-> [content.lines EXCEPT ![Len(content.lines)] = @ \o line],
          eol |-> TRUE]

\* The patterns below are anchored with ^ and $ under re.MULTILINE: re.search
\* finds a line that matches, re.sub replaces every line that matches.

\* ^CONFIG=(y|m)$
matches_enabled(line, config) ==
  line = <<config, "=", "y">> \/ line = <<config, "=", "m">>

\* ^CONFIG=.*$
matches_set(line, config) ==
  Len(line) >= 2 /\ line[1] = config /\ line[2] = "="

\* ^# CONFIG is not set$
not_set_line(config) == <<"# ", config, " is not set">>

\* len(re.findall(r'\bCONFIG\b', content))
count_config_occurrences(content, config) ==
  Cardinality(UNION {{<<i, j>> : j \in {n \in DOMAIN content.lines[i] :
                                          content.lines[i][n] = config}} :
                     i \in DOMAIN content.lines})

is_config_enabled(content, config) ==
  \E i \in DOMAIN content.lines : matches_enabled(content.lines[i], config)

is_config_set(content, config) ==
  \E i \in DOMAIN content.lines : matches_set(content.lines[i], config)

add_config_not_set(content, config) == append_line(content, not_set_line(config))

enable_config(content, config) ==
  [content EXCEPT !.lines =
     [i \in DOMAIN content.lines |->
        IF content.lines[i] = not_set_line(config)
          THEN <<config, "=", "y">>
          ELSE content.lines[i]]]

disable_config(content, config) ==
  [content EXCEPT !.lines =
     [i \in DOMAIN content.lines |->
        IF matches_set(content.lines[i], config)
          THEN not_set_line(config)
          ELSE content.lines[i]]]

\* What a step does to the process: it prints, counts, reads and may write.
print_line(k, line) == [k EXCEPT !.stdout = Append(@, line)]
count_error(k) == [k EXCEPT !.errors = @ + 1]
count_fix(k) == [k EXCEPT !.fixes = @ + 1]
read_file(k) == [k EXCEPT !.reads = @ + 1]
write_to_file(k, content) == [k EXCEPT !.file = content, !.writes = @ + 1]

\* One turn of the loop "Check all configs exist" that creates the missing
\* line whether or not -w was given.
check_exists_creating_always(k, config) ==
  LET count == count_config_occurrences(k.file, config)
      k1 == read_file(k)
      k2 == IF count > 1
              THEN count_error(print_line(k1,
                     color_red(<<config, " appears more than once in the config file, fix this">>)))
              ELSE k1
  IN  IF count = 0
        THEN count_fix(write_to_file(
               print_line(k2, color_white(<<"Creating ", config>>)),
               add_config_not_set(k2.file, config)))
        ELSE k2

\* One turn of the loop "Check all configs exist", lines 251-264.
check_exists(k, config) ==
  LET count == count_config_occurrences(k.file, config)
      k1 == read_file(k)
      k2 == IF count > 1
              THEN count_error(print_line(k1,
                     color_red(<<config, " appears more than once in the config file, fix this">>)))
              ELSE k1
  IN  IF count = 0
        THEN IF k.write_mode
               THEN count_fix(write_to_file(
                      print_line(k2, color_white(<<"Creating ", config>>)),
                      add_config_not_set(k2.file, config)))
               ELSE count_error(print_line(k2,
                      color_red(<<config, " is neither enabled nor disabled in the config file">>)))
        ELSE k2

\* One turn of the loop "Enable configs that should be on", lines 267-277.
\* enable_config reads the file and writes it back.
enable(k, config) ==
  LET k1 == read_file(k)
  IN  IF is_config_enabled(k.file, config)
        THEN print_line(k1, color_green(<<config, " is already set">>))
        ELSE IF k.write_mode
               THEN count_fix(write_to_file(
                      read_file(print_line(k1, color_white(<<"Setting ", config>>))),
                      enable_config(k.file, config)))
               ELSE count_error(print_line(k1,
                      color_red(<<config, " is not set, set it">>)))

\* One turn of the loop "Disable configs that should be off", lines 311-321.
disable(k, config) ==
  LET k1 == read_file(k)
  IN  IF is_config_enabled(k.file, config)
        THEN IF k.write_mode
               THEN count_fix(write_to_file(
                      read_file(print_line(k1, color_white(<<"Unsetting ", config>>))),
                      disable_config(k.file, config)))
               ELSE count_error(print_line(k1,
                      color_red(<<config, " is set, unset it">>)))
        ELSE print_line(k1, color_green(<<config, " is already unset">>))

\* One turn of the loop the process is in.
turn(k, config) ==
  CASE k.pc = "exist" -> check_exists(k, config)
    [] k.pc = "enable" -> enable(k, config)
    [] k.pc = "disable" -> disable(k, config)

\* for config in configs[first..last]: the turns of the first half, then,
\* the process still being in the loop, those of the second.
RECURSIVE for_each(_, _, _, _)
for_each(k, configs, first, last) ==
  IF first > last THEN k
  ELSE IF first = last THEN turn(k, configs[first])
  ELSE LET middle == (first + last) \div 2
           half == for_each(k, configs, first, middle)
       IN  IF half.pc = k.pc
             THEN for_each(half, configs, middle + 1, last)
             ELSE half

\* The messages in which the two scripts differ (the one of lxc/config.py
\* about the fixes is in Chinese, given here by its ASCII part).
checking_message(script) ==
  IF script = "lxc"
    THEN <<"\n\nChecking config file for https://github.com/wu17481748/lxc-docker specific config options.\n\n">>
    ELSE <<"\n\nChecking config file for kali specific config options.\n\n">>

fixes_message(script, fixes) ==
  IF script = "lxc"
    THEN <<"docker-lxc: ", ToString(fixes), ".\n\n">>
    ELSE <<"Made ", ToString(fixes), " fixes.\n\n">>

\* The lines a config file may hold: an option both scripts want on, given
\* as y, as n and as not set; an option lxc wants off; an option nethunter
\* wants both on and off; an option neither lists; a blank line.
ConfigLines ==
  { <<"CONFIG_NET_NS", "=", "y">>,
    <<"CONFIG_NET_NS", "=", "n">>,
    <<"# ", "CONFIG_NET_NS", " is not set">>,
    <<"CONFIG_SCHED_WALT", "=", "y">>,
    <<"CONFIG_MEDIA_TUNER_R820T", "=", "m">>,
    <<"CONFIG_LOCALVERSION", "=", "\"-perf\"">>,
    <<>> }

\* The files of at most MaxConfigLines lines, with and without a final newline.
ConfigFiles ==
  {[lines |-> l, eol |-> e] :
     l \in SeqsUpTo(ConfigLines, MaxConfigLines), e \in BOOLEAN}
  \ {[lines |-> l, eol |-> FALSE] :
       l \in {s \in SeqsUpTo(ConfigLines, MaxConfigLines) :
                s = <<>> \/ s[Len(s)] = <<>>}}

Scripts == {"lxc", "nethunter"}

\* A script is started, with or without -w, on a path that leads to a file
\* inside the working directory, to one outside it, or to nothing.
ConfigStarts ==
  {[NoConfigRun EXCEPT !.pc = "start", !.script = s, !.write_mode = w,
                       !.path = p, !.file0 = f, !.file = f] :
     s \in Scripts, w \in BOOLEAN, p \in {"inside", "outside"}, f \in ConfigFiles}
  \cup
  {[NoConfigRun EXCEPT !.pc = "start", !.script = s, !.write_mode = w] :
     s \in Scripts, w \in BOOLEAN}


InitConfig ==
  /\ ClassifierIdle
  /\ cleaner = NoCleaner
  /\ extraction = NoExtraction
  /\ kconfig \in ConfigStarts
  /\ patcher = NoPatcher

\* config_file.is_relative_to(Path.cwd()), line 233, with every answer.
is_relative_to_cwd_always(k) == TRUE

\* config_file.is_relative_to(Path.cwd()), line 233: the resolved path lies in
\* the working directory.
is_relative_to_cwd(k) == k.path # "outside"

\* config_file.exists(), line 237.
exists(k) == k.path # "missing"

\* The path is outside the working directory: lines 233-235.
ConfigOutside ==
  /\ kconfig.pc = "start"
  /\ ~is_relative_to_cwd(kconfig)
  /\ kconfig' = [print_line(kconfig,
                    <<"Error: Config file must be within the current directory">>)
                  EXCEPT !.pc = "exited", !.exit_status = 1]
  /\ ClassifierUnchanged
  /\ UNCHANGED <<cleaner, extraction, patcher>>

\* The path leads to nothing: lines 237-239.
ConfigMissing ==
  /\ kconfig.pc = "start"
  /\ is_relative_to_cwd(kconfig)
  /\ ~exists(kconfig)
  /\ kconfig' = [print_line(kconfig, <<"Provide a config file as argument">>)
                  EXCEPT !.pc = "exited", !.exit_status = 1]
  /\ ClassifierUnchanged
  /\ UNCHANGED <<cleaner, extraction, patcher>>

\* The file is there: the lists are parsed and the heading printed, lines 241-248.
ConfigBegin ==
  /\ kconfig.pc = "start"
  /\ is_relative_to_cwd(kconfig)
  /\ exists(kconfig)
  /\ kconfig' = [print_line(kconfig, checking_message(kconfig.script))
                  EXCEPT !.pc = "exist"]
  /\ ClassifierUnchanged
  /\ UNCHANGED <<cleaner, extraction, patcher>>

\* The loop "Check all configs exist", lines 251-264.
ConfigCheckExist ==
  /\ kconfig.pc = "exist"
  /\ kconfig' =
       [for_each(kconfig,
                 configs_on(kconfig.script) \o configs_off(kconfig.script), 1,
                 Len(configs_on(kconfig.script)) + Len(configs_off(kconfig.script)))
        EXCEPT !.pc = "enable"]
  /\ ClassifierUnchanged
  /\ UNCHANGED <<cleaner, extraction, patcher>>

\* The loop "Enable configs that should be on", lines 267-277, and the loop
\* over CONFIGS_EQ, lines 280-308, which has no turn: the list is empty in
\* both scripts.
ConfigEnable ==
  /\ kconfig.pc = "enable"
  /\ configs_eq(kconfig.script) = <<>>
  /\ kconfig' =
       [for_each(kconfig, configs_on(kconfig.script), 1,
                 Len(configs_on(kconfig.script)))
        EXCEPT !.pc = "disable"]
  /\ ClassifierUnchanged
  /\ UNCHANGED <<cleaner, extraction, patcher>>

\* The loop "Disable configs that should be off", lines 311-321.
ConfigDisable ==
  /\ kconfig.pc = "disable"
  /\ kconfig' =
       [for_each(kconfig, configs_off(kconfig.script), 1,
                 Len(configs_off(kconfig.script)))
        EXCEPT !.pc = "summary"]
  /\ ClassifierUnchanged
  /\ UNCHANGED <<cleaner, extraction, patcher>>

\* The closing messages, lines 323-329; main returns and the status is 0.
ConfigSummary ==
  /\ kconfig.pc = "summary"
  /\ LET k1 == print_line(kconfig,
                  IF kconfig.errors = 0
                    THEN color_green(<<"\n\nConfig file checked, found no errors.\n\n">>)
                    ELSE color_red(<<"\n\nConfig file checked, found ",
                                     ToString(kconfig.errors),
                                     " errors that I did not fix.\n\n">>))
         k2 == IF kconfig.fixes > 0
                 THEN print_line(k1, color_green(fixes_message(kconfig.script, kconfig.fixes)))
                 ELSE k1
     IN  kconfig' = [k2 EXCEPT !.pc = "exited", !.exit_status = 0]
  /\ ClassifierUnchanged
  /\ UNCHANGED <<cleaner, extraction, patcher>>

NextConfig ==
  \/ ConfigOutside
  \/ ConfigMissing
  \/ ConfigBegin
  \/ ConfigCheckExist
  \/ ConfigEnable
  \/ ConfigDisable
  \/ ConfigSummary

SpecConfig == InitConfig /\ [][NextConfig]_vars

-----------------------------------------------------------------------------
(* A config script run twice with -w on the same file *)

\* Files in which a line occurs twice.
RepeatedLineFiles ==
  {[lines |-> <<line, line>>, eol |-> e] :
     line \in ConfigLines \ {<<>>}, e \in BOOLEAN}

InitConfigTwice ==
  /\ ClassifierIdle
  /\ cleaner = NoCleaner
  /\ extraction = NoExtraction
  /\ patcher = NoPatcher
  /\ kconfig \in
       {[NoConfigRun EXCEPT !.pc = "start", !.script = s, !.write_mode = TRUE,
                            !.path = "inside", !.file0 = f, !.file = f] :
          s \in Scripts, f \in ConfigFiles \cup RepeatedLineFiles}

\* The first process has ended and the script is started again with -w on
\* the file as the first run left it.
ConfigRunAgain ==
  /\ kconfig.pc = "exited"
  /\ kconfig.exit_status = 0
  /\ kconfig.run = 1
  /\ kconfig' = [kconfig EXCEPT !.pc = "start", !.run = 2, !.file0 = kconfig.file,
                                !.errors = 0, !.fixes = 0, !.reads = 0, !.writes = 0,
                                !.stdout = <<>>, !.exit_status = -1]
  /\ ClassifierUnchanged
  /\ UNCHANGED <<cleaner, extraction, patcher>>

NextConfigTwice ==
  \/ ConfigBegin
  \/ ConfigCheckExist
  \/ ConfigEnable
  \/ ConfigDisable
  \/ ConfigSummary
  \/ ConfigRunAgain

SpecConfigTwice == InitConfigTwice /\ [][NextConfigTwice]_vars

-----------------------------------------------------------------------------
(* lxc/patch.py: apply_cgroup_patch *)

\* The longest source file handed to apply_cgroup_patch, in lines.
MaxSourceLines == 4

\* A file is a sequence of tokens.  A line terminator is one token: "\n",
\* "\r\n" or "\r"; a "\r" token is never followed by a "\n" token.
CRLF == "\r\n"
CR == "\r"

\* path.read_text(encoding='utf-8'), line 38: the file is opened in text mode,
\* where every line terminator is handed over as "\n".
read_text(file) ==
  [i \in 1..Len(file) |-> IF file[i] \in {CRLF, CR} THEN NL ELSE file[i]]

\* path.write_text(text, encoding='utf-8'), line 80: text mode writes "\n" as
\* os.linesep, which is "\n" where the kernel is built.
write_text(text) == text

\* content.split('\n'), line 39: the text between the "\n", one line more than
\* there are "\n".
RECURSIVE split(_)
split(content) ==
  IF \A i \in DOMAIN content : content[i] # NL THEN <<content>>
  ELSE LET first == CHOOSE i \in DOMAIN content :
                      /\ content[i] = NL
                      /\ \A j \in 1..(i - 1) : content[j] # NL
       IN  <<SubSeq(content, 1, first - 1)>>
             \o split(SubSeq(content, first + 1, Len(content)))

\* line.lstrip(), line 58.
RECURSIVE lstrip(_)
lstrip(line) ==
  IF line # <<>> /\ IsSpace(line[1]) THEN lstrip(Tail(line)) ELSE line

\* stripped.count('{') and stripped.count('}'), lines 54-55.
count(stripped, sub) == Cardinality({i \in DOMAIN stripped : stripped[i] = sub})

\* ' ' * indent, line 59.
spaces(indent) == [i \in 1..indent |-> SP]

\* patch_code, lines 61-66.
patch_code(base_indent) ==
  << base_indent \o <<"if (cft->ss && (cgrp->root->flags & CGRP_ROOT_NOPREFIX) && !(cft->flags & CFTYPE_NO_PREFIX)) ", "{">>,
     base_indent \o <<SP, SP, SP, SP, "snprintf(name, CGROUP_FILE_NAME_MAX, \"%s.%s\", cft->ss->name, cft->name);">>,
     base_indent \o <<SP, SP, SP, SP, "kernfs_create_link(cgrp->kn, name, kn);">>,
     base_indent \o <<"}">> >>

\* The body of the loop without "inserted = True": the patch goes before every
\* 'return 0;' the test of line 57 accepts.
for_line_without_inserted_flag(p, line) ==
  LET stripped == strip(line)
      in_function == p.in_function \/ Contains(stripped, "int cgroup_add_file")
      brace_count == IF in_function
                     THEN p.brace_count + count(stripped, "{") - count(stripped, "}")
                     ELSE p.brace_count
      inserting == in_function /\ stripped = <<"return 0;">> /\ brace_count > 0
  IN  [p EXCEPT !.in_function = in_function,
                !.brace_count = brace_count,
                !.inserted = p.inserted \/ inserting,
                !.new_lines = IF inserting
                              THEN @ \o patch_code(spaces(Len(line) - Len(lstrip(line))))
                                     \o <<line>>
                              ELSE Append(@, line),
                !.next = @ + 1]

\* The body of the loop "for line in lines", lines 46-72.
for_line(p, line) ==
  LET stripped == strip(line)
      in_function == p.in_function \/ Contains(stripped, "int cgroup_add_file")
      counting == in_function /\ ~p.inserted
      brace_count == IF counting
                     THEN p.brace_count + count(stripped, "{") - count(stripped, "}")
                     ELSE p.brace_count
      inserting == counting /\ stripped = <<"return 0;">> /\ brace_count > 0
  IN  [p EXCEPT !.in_function = in_function,
                !.brace_count = brace_count,
                !.inserted = p.inserted \/ inserting,
                !.new_lines = IF inserting
                              THEN @ \o patch_code(spaces(Len(line) - Len(lstrip(line))))
                                     \o <<line>>
                              ELSE Append(@, line),
                !.next = @ + 1]

\* The lines a source file is made of here: the prototype of cgroup_add_file,
\* the head of its definition, the head of another function, a 'return 0;'
\* and a closing brace.
SourceLines ==
  { <<"int cgroup_add_file", "(struct cgroup *cgrp, struct cftype *cft)", ";">>,
    <<"int cgroup_add_file", "(struct cgroup *cgrp, struct cftype *cft)", SP, "{">>,
    <<"int cgroup_rm_file", "(struct cgroup *cgrp, struct cftype *cft)", SP, "{">>,
    <<TAB, "return 0;">>,
    <<"}">> }

\* The text of a file: its lines, each but the last followed by the file's
\* line terminator, the last one too when final holds.
RECURSIVE text_of(_, _, _)
text_of(lines, terminator, final) ==
  IF lines = <<>> THEN <<>>
  ELSE IF Len(lines) = 1 THEN lines[1] \o (IF final THEN <<terminator>> ELSE <<>>)
  ELSE lines[1] \o <<terminator>> \o text_of(Tail(lines), terminator, final)

SourceFiles ==
  {text_of(lines, terminator, final) :
     lines \in SeqsUpTo(SourceLines, MaxSourceLines),
     terminator \in {NL, CRLF, CR}, final \in BOOLEAN}

\* main calls apply_cgroup_patch(file_path) on a file that exists and does not
\* hold the patch yet, lines 157-165.
InitPatch ==
  /\ ClassifierIdle
  /\ cleaner = NoCleaner
  /\ extraction = NoExtraction
  /\ kconfig = NoConfigRun
  /\ patcher \in {[NoPatcher EXCEPT !.pc = "start", !.file0 = f, !.file = f] :
                    f \in SourceFiles}

\* The file is read and split into lines, the loop's variables are set:
\* lines 37-44.
PatchRead ==
  /\ patcher.pc = "start"
  /\ patcher' = [patcher EXCEPT !.pc = "loop",
                                !.reads = @ + 1,
                                !.lines = split(read_text(patcher.file)),
                                !.next = 1,
                                !.new_lines = <<>>,
                                !.in_function = FALSE,
                                !.brace_count = 0,
                                !.inserted = FALSE]
  /\ ClassifierUnchanged
  /\ UNCHANGED <<cleaner, extraction, kconfig>>

\* One turn of the loop, lines 46-72.
PatchLine ==
  /\ patcher.pc = "loop"
  /\ patcher.next <= Len(patcher.lines)
  /\ patcher' = for_line(patcher, patcher.lines[patcher.next])
  /\ ClassifierUnchanged
  /\ UNCHANGED <<cleaner, extraction, kconfig>>

\* No insertion point: a warning on standard error, nothing written,
\* lines 74-76.
PatchNotInserted ==
  /\ patcher.pc = "loop"
  /\ patcher.next > Len(patcher.lines)
  /\ ~patcher.inserted
  /\ patcher' = [patcher EXCEPT
                   !.pc = "returned",
                   !.stderr = Append(@, <<"Warning: Could not find insertion point in ", "cgroup_file">>)]
  /\ ClassifierUnchanged
  /\ UNCHANGED <<cleaner, extraction, kconfig>>

\* The new lines are joined and written, lines 78-81.
PatchWrite ==
  /\ patcher.pc = "loop"
  /\ patcher.next > Len(patcher.lines)
  /\ patcher.inserted
  /\ patcher' = [patcher EXCEPT
                   !.pc = "returned",
                   !.file = write_text(join_lines(patcher.new_lines)),
                   !.writes = @ + 1,
                   !.stdout = Append(@, <<"Patch applied successfully to ", "cgroup_file">>)]
  /\ ClassifierUnchanged
  /\ UNCHANGED <<cleaner, extraction, kconfig>>

NextPatch == PatchRead \/ PatchLine \/ PatchNotInserted \/ PatchWrite

SpecPatch == InitPatch /\ [][NextPatch]_vars

-----------------------------------------------------------------------------
(* What the claims speak of *)

\* The lines of the log as the loop sees them, without their terminators.
LogLines == [k \in 1..Len(log.content) |-> rstrip_nl(log.content[k])]

\* The lines the loop has processed so far.
LinesRead == SubSeq(LogLines, 1, pos - 1)

\* The process has passed the open and read (part of) a readable log.
Reading == pc \in {"loop", "report", "exited"} /\ log.state = "readable"

\* The process has ended after analyze_errors returned.
Completed == pc = "exited" /\ result >= 0

\* A line made of white space only, or of nothing.
IsBlank(line) == \A k \in 1..Len(line) : IsSpace(line[k])

\* Number of trigger lines among lines.
TriggerCount(lines) == Cardinality({k \in 1..Len(lines) : is_error_start(lines[k])})

\* The n-th smallest element of a set of numbers.
Nth(S, n) == CHOOSE i \in S : Cardinality({t \in S : t <= i}) = n

\* The reference segmentation: one block per trigger line, made of the trigger
\* line and the longest run of lines right after it that are neither blank nor
\* trigger lines.
RunEnd(lines, i) ==
  CHOOSE j \in i..Len(lines) :
    /\ \A k \in (i + 1)..j : ~IsBlank(lines[k]) /\ ~is_error_start(lines[k])
    /\ j = Len(lines) \/ IsBlank(lines[j + 1]) \/ is_error_start(lines[j + 1])

ReferenceBlocks(lines) ==
  LET T == {k \in 1..Len(lines) : is_error_start(lines[k])}
  IN [n \in 1..Cardinality(T) |-> SubSeq(lines, Nth(T, n), RunEnd(lines, Nth(T, n)))]

\* Whether the lines of stdout hold a line that starts with the fragment first.
Printed(first) == \E k \in 1..Len(stdout) : stdout[k] # <<>> /\ stdout[k][1] = first

\* Number of lines of stdout that start with the fragment first.
PrintedCount(first) ==
  Cardinality({k \in 1..Len(stdout) : stdout[k] # <<>> /\ stdout[k][1] = first})

-----------------------------------------------------------------------------
(* C1 *)

\* C1: the error counter equals the number of trigger lines read so far, and at
\* the end the count returned and the counts printed equal the number of
\* trigger lines of the log; the number of blocks never exceeds it.
C1_CountIsTriggerCount ==
  /\ Reading =>
       /\ error_count = TriggerCount(LinesRead)
       /\ Len(error_blocks) <= error_count
  /\ Completed =>
       /\ result = TriggerCount(LogLines)
       /\ PrintedCount("Error #") <= TriggerCount(LogLines)
       /\ TriggerCount(LogLines) > 0 =>
            /\ <<"Total found ", ToString(TriggerCount(LogLines)), " error(s).">>
                 \in {stdout[k] : k \in 1..Len(stdout)}
            /\ <<"Total: ", ToString(TriggerCount(LogLines)), " error(s)">>
                 \in {stdout[k] : k \in 1..Len(stdout)}

\* A completed run on a log of three lines, two of them trigger lines.
C1_Witness ==
  /\ Completed
  /\ Len(LogLines) = 3
  /\ TriggerCount(LogLines) = 2
  /\ result = 2

-----------------------------------------------------------------------------
(* C3 *)

\* C3: the blocks the loop has closed, followed by the block it has open, are
\* the reference segmentation of the lines read; after the end-of-file flush
\* the block list is the reference segmentation of the whole log.
C3_SegmentationIsReference ==
  /\ pc = "loop" /\ log.state = "readable" =>
       (IF processing_error
        THEN Append(error_blocks, current_error_lines)
        ELSE error_blocks) = ReferenceBlocks(LinesRead)
  /\ pc \in {"report", "exited"} /\ log.state = "readable" =>
       error_blocks = ReferenceBlocks(LogLines)

\* Consecutive trigger lines, the second directly followed by a blank line:
\* each is a block of its own, of that one line.
C3_Witness ==
  /\ pc = "report"
  /\ LogLines = <<LineError, LineUndefined, LineBlank>>
  /\ error_blocks = << <<LineError>>, <<LineUndefined>> >>

-----------------------------------------------------------------------------
(* C10 *)

\* C10: in every state, each block of the block list is non-empty, starts with
\* a trigger line and holds no other trigger line and no blank line.
C10_BlocksWellFormed ==
  \A n \in 1..Len(error_blocks) :
    /\ error_blocks[n] # <<>>
    /\ is_error_start(error_blocks[n][1])
    /\ \A k \in 2..Len(error_blocks[n]) :
         /\ ~is_error_start(error_blocks[n][k])
         /\ ~IsBlank(error_blocks[n][k])

\* After the flush: a one-line block closed by the next trigger line, then a
\* two-line block closed by the end of the file.
C10_Witness ==
  /\ pc = "report"
  /\ Len(error_blocks) = 2
  /\ Len(error_blocks[1]) = 1
  /\ Len(error_blocks[2]) = 2

-----------------------------------------------------------------------------
(* C2 *)

\* The text of the n-th block, as analyze_error_block joins it.
BlockText(n) == join_lines(error_blocks[n])

\* The catalog entries whose pattern is found in text, ignoring case.
MatchingEntries(text) ==
  {k \in 1..Len(error_patterns) : re_search(error_patterns[k].pattern, text, TRUE)}

\* Whether text holds the phrase (one token), ignoring case.
HasPhrase(text, phrase) == \E j \in 1..Len(text) : Lower(text[j]) = Lower(phrase)

\* C2: each reported block has the category of the lowest-numbered catalog
\* entry found in its text, or the default category and the generic advice
\* when there is none; a block holding both "No such file or directory" and
\* "-Werror" is "Missing Header or Source File".
C2_FirstMatchWins ==
  \A n \in 1..Len(error_summaries) :
    LET M == MatchingEntries(BlockText(n))
    IN /\ M = {} => error_summaries[n] = <<DefaultType, <<DefaultSuggestion>> >>
       /\ M # {} =>
            \E k \in M :
              /\ \A j \in M : k <= j
              /\ error_summaries[n][1] = error_patterns[k].etype
       /\ HasPhrase(BlockText(n), "No such file or directory")
            /\ HasPhrase(BlockText(n), "-Werror")
            => error_summaries[n][1] = "Missing Header or Source File"

\* A reported block that holds both phrases, and one that matches no entry.
C2_Witness ==
  /\ Completed
  /\ Len(error_summaries) = 2
  /\ HasPhrase(BlockText(1), "No such file or directory")
  /\ HasPhrase(BlockText(1), "-Werror")
  /\ error_summaries[1][1] = "Missing Header or Source File"
  /\ MatchingEntries(BlockText(2)) = {}
  /\ error_summaries[2][1] = "Uncommon Error"

-----------------------------------------------------------------------------
(* C4 *)

\* C4: a completed run on a log without trigger lines returns 0, prints
\* "No errors found.", prints no "Error #" header and no summary banner, and
\* does not touch have_error, which stays as it was.
C4_CleanLog ==
  Completed /\ TriggerCount(LogLines) = 0 =>
    /\ result = 0
    /\ Printed("No errors found.")
    /\ ~Printed("Error #")
    /\ ~Printed(Banner)
    /\ ~Printed("Total found ")
    /\ ~touched
    /\ have_error = have_error_before

\* A completed first run on three lines, none a trigger line, though some
\* would continue a block.
C4_Witness ==
  /\ Completed
  /\ Len(LogLines) = 3
  /\ TriggerCount(LogLines) = 0
  /\ \E k \in 1..3 : is_continuation(LogLines[k])
  /\ Printed("No errors found.")
  /\ ~have_error

-----------------------------------------------------------------------------
(* C5 *)

\* C5 as stated: after each completed run, have_error exists if and only if
\* that run found at least one error block.
C5_SentinelIffThisRunFound ==
  Completed => (have_error <=> Len(error_blocks) > 0)

\* C5 as amended: after each completed run, have_error exists if and only if
\* that run found at least one error block or the file already existed when
\* the run started.
C5_SentinelIffFoundOrExisted ==
  Completed => (have_error <=> (Len(error_blocks) > 0 \/ have_error_before))

\* A run that found no error block in a directory where an earlier run had
\* left have_error.
C5_Witness ==
  /\ Completed
  /\ have_error_before
  /\ Len(LogLines) > 0
  /\ Len(error_blocks) = 0
  /\ have_error

-----------------------------------------------------------------------------
(* C6 *)

\* C6: a run on a missing log ends at once with a non-zero status, its
\* diagnostic on standard error and nothing on standard output, and
\* have_error is not created.
C6_MissingLogDiagnosticOnStderr ==
  pc = "exited" /\ log.state = "missing" =>
    /\ exit_status # 0
    /\ result = -1
    /\ MissingDiagnostic \in {stderr[k] : k \in 1..Len(stderr)}
    /\ stdout = <<>>
    /\ ~touched
    /\ have_error = have_error_before

-----------------------------------------------------------------------------
(* C7 *)

\* A line of the report: any line of stdout but the missing-log diagnostic.
IsReportLine(line) == line # MissingDiagnostic

\* The report is there in full: header, one "Error #" header per block, the
\* totals, and the final summary when there are errors.
FullReport ==
  /\ Len(stdout) >= 2
  /\ stdout[1] = Header
  /\ PrintedCount("Error #") = Len(error_blocks)
  /\ Printed("No errors found.") \/ Printed("Total found ")
  /\ Printed("Total found ") => Printed("Total: ")

\* C7: when the process has ended, standard output holds either no line of
\* the report or the full report.
C7_NoPartialReport ==
  pc = "exited" =>
    \/ \A k \in 1..Len(stdout) : ~IsReportLine(stdout[k])
    \/ FullReport

-----------------------------------------------------------------------------
(* C8 *)

-----------------------------------------------------------------------------
(* C9 *)

\* Whether text holds the tokens of sub in a row.
HasText(text, sub) ==
  \E j \in 1..(Len(text) - Len(sub) + 1) : SubSeq(text, j, j + Len(sub) - 1) = sub

UndefinedReferenceToFoo == <<"undefined reference to", SP, "'foo'">>

\* C9 as stated: every reported block whose text holds "undefined reference
\* to 'foo'" has the category "Link Error: Missing Library or Function".
C9_UndefinedReferenceAlwaysLinkError ==
  \A n \in 1..Len(error_summaries) :
    HasText(BlockText(n), UndefinedReferenceToFoo)
      => error_summaries[n][1] = "Link Error: Missing Library or Function"

\* C9 as amended: every reported block whose text holds "undefined reference
\* to 'foo'" and nowhere "No such file or directory" (in any case) has the
\* category "Link Error: Missing Library or Function".
C9_UndefinedReferenceLinkErrorUnlessNoSuchFile ==
  \A n \in 1..Len(error_summaries) :
    HasText(BlockText(n), UndefinedReferenceToFoo)
      /\ ~HasPhrase(BlockText(n), "No such file or directory")
      => error_summaries[n][1] = "Link Error: Missing Library or Function"

\* A reported block that holds the phrase and also matches a later catalog
\* entry ("-Werror").
C9_Witness ==
  \E n \in 1..Len(error_summaries) :
    /\ HasText(BlockText(n), UndefinedReferenceToFoo)
    /\ HasPhrase(BlockText(n), "-Werror")
    /\ error_summaries[n][1] = "Link Error: Missing Library or Function"

-----------------------------------------------------------------------------
(* C11 *)

\* C11: when the second of two runs on the same unchanged log has ended, its
\* standard output is that of the first run, and have_error is there if and
\* only if it was there after the first run.
C11_SecondRunSameAsFirst ==
  pc = "exited" /\ previous.ran =>
    /\ stdout = previous.stdout
    /\ have_error = previous.have_error

\* The second run has ended on a log with two errors, in a directory where
\* the first run created have_error.
C11_Witness ==
  /\ Completed
  /\ previous.ran
  /\ result = 2
  /\ have_error_before
  /\ Len(stdout) > 2
  /\ stdout = previous.stdout

-----------------------------------------------------------------------------
(* C12 *)

\* C12: two reported blocks with the same text have the same category and
\* suggestion, whatever their numbers and neighbours; each reported block has
\* the category and suggestion its text has when it is the only block of a
\* log; and the step that classifies and prints a block leaves the block list,
\* the counter, the log and have_error as they are.
C12_ClassificationDependsOnTextOnly ==
  /\ [](\A m, n \in 1..Len(error_summaries) :
          BlockText(m) = BlockText(n) => error_summaries[m] = error_summaries[n])
  /\ [](\A n \in 1..Len(error_summaries) :
          LET alone == analyze_error_block(error_blocks[n], 1)
          IN error_summaries[n] = <<alone.error_type, alone.suggestion>>)
  /\ [][ReportBlock =>
         UNCHANGED <<error_blocks, error_count, current_error_lines, processing_error,
                     log, have_error, touched>>]_vars

\* The same block reported as number 1 and as number 3, another one between
\* them, and both classified alike by a catalog entry.
C12_Witness ==
  /\ Len(error_summaries) = 3
  /\ error_blocks[1] = error_blocks[3]
  /\ error_blocks[1] # error_blocks[2]
  /\ error_summaries[1] = error_summaries[3]
  /\ error_summaries[1] # error_summaries[2]
  /\ error_summaries[1][1] # DefaultType

-----------------------------------------------------------------------------
(* C13 *)

\* Number of lines of stdout before the output of block k: the header and the
\* separator, then for each earlier block its lines and four more.
RECURSIVE LinesBeforeBlock(_, _)
LinesBeforeBlock(B, k) ==
  IF k = 1 THEN 2 ELSE LinesBeforeBlock(B, k - 1) + Len(B[k - 1]) + 4

\* C13: the stdout of a completed run holds, after the header, the blocks in
\* the order of their trigger lines in the log, block k as "Error #k:", its
\* lines indented, a category line, a suggestion line and a separator; then
\* the totals; then, when there are errors, the final summary, whose entry k
\* is "[k]" with the category and the suggestion of block k's output; and
\* nothing else.  While blocks are being printed no summary banner is there.
C13_ReportLayout ==
  /\ pc = "report" => ~Printed(Banner)
  /\ Completed =>
       LET B == ReferenceBlocks(LogLines)
           n == Len(B)
           t == LinesBeforeBlock(B, n + 1)
       IN /\ \A k \in 1..n :
               LET o == LinesBeforeBlock(B, k)
                   len == Len(B[k])
               IN /\ stdout[o + 1] = <<"Error #", ToString(k), ":">>
                  /\ \A j \in 1..len : stdout[o + 1 + j] = <<"  ">> \o B[k][j]
                  /\ Len(stdout[o + len + 2]) = 2
                  /\ stdout[o + len + 2][1] = "Error: "
                  /\ stdout[o + len + 3][1] = "Suggestion: "
                  /\ stdout[o + len + 4] = Separator
          /\ n = 0 => Len(stdout) = t + 2
          /\ n > 0 =>
               /\ Len(stdout) = t + 3 + 4 + 2 * n + 3
               /\ stdout[t + 5] = <<Banner>>
               /\ stdout[t + 7] = <<Banner>>
               /\ \A k \in 1..n :
                    LET o == LinesBeforeBlock(B, k)
                        len == Len(B[k])
                    IN /\ stdout[t + 7 + 2 * k - 1]
                            = <<"\n  [", ToString(k), "] ", stdout[o + len + 2][2]>>
                       /\ stdout[t + 7 + 2 * k]
                            = <<"      ">> \o Tail(stdout[o + len + 3])
               /\ stdout[t + 7 + 2 * n + 2] = <<"Total: ", ToString(n), " error(s)">>

\* A completed run that printed two blocks, the first of two lines, of
\* different categories.
C13_Witness ==
  /\ Completed
  /\ Len(error_blocks) = 2
  /\ Len(error_blocks[1]) = 2
  /\ error_summaries[1][1] # error_summaries[2][1]
  /\ Printed("\n  [")

-----------------------------------------------------------------------------
(* C14 *)

\* C14: a step of a classifier process leaves the log as it is and does not
\* remove have_error, and changes have_error only by touching it; a have_error
\* that was there when the process started is there as long as the process
\* lives and after it; and a completed run has touched have_error if and only
\* if its log holds a trigger line, whatever the blocks were classified as.
C14_FilesystemFrame ==
  /\ [][pc \notin {"idle", "exited"} =>
         /\ log' = log
         /\ have_error => have_error'
         /\ have_error' # have_error => touched']_vars
  /\ [](pc # "idle" /\ have_error_before => have_error)
  /\ [](pc \notin {"idle", "exited"} => ~touched)
  /\ [](Completed => (touched <=> TriggerCount(LogLines) > 0))

\* A run on a log without trigger lines has ended in a directory that held
\* have_error: the file is still there, untouched.
C14_Witness ==
  /\ pc = "exited"
  /\ log.state = "readable"
  /\ Len(LogLines) > 1
  /\ TriggerCount(LogLines) = 0
  /\ have_error_before
  /\ ~touched
  /\ have_error

-----------------------------------------------------------------------------
(* C18 *)

\* The index in lines of the n-th trigger line.
NthTrigger(lines, n) == Nth({k \in 1..Len(lines) : is_error_start(lines[k])}, n)

\* C18: while the loop runs, the closed blocks and the open one are as many as
\* the trigger lines read; the end-of-file step appends the open block if there
\* is one and nothing otherwise; afterwards the block list holds one block per
\* trigger line of the log, the n-th starting with the n-th trigger line.
C18_EachBlockAppendedOnce ==
  /\ [](pc = "loop" /\ log.state = "readable" =>
          Len(error_blocks) + (IF processing_error THEN 1 ELSE 0)
            = TriggerCount(LinesRead))
  /\ [][EndOfFile =>
         error_blocks' = IF processing_error
                         THEN Append(error_blocks, current_error_lines)
                         ELSE error_blocks]_vars
  /\ [](pc \in {"report", "exited"} /\ log.state = "readable" =>
          /\ Len(error_blocks) = TriggerCount(LogLines)
          /\ \A n \in 1..Len(error_blocks) :
               error_blocks[n][1] = LogLines[NthTrigger(LogLines, n)])

\* A log that ends with a blank line after a two-line block: the blank line
\* closed the block and the flush added nothing.
C18_Witness ==
  /\ pc = "report"
  /\ LogLines = <<LineError, LineNote, LineBlank>>
  /\ ~processing_error
  /\ error_blocks = << <<LineError, LineNote>> >>

-----------------------------------------------------------------------------
(* C19 *)

\* C19: for a reported block that a catalog entry matches, the suggestion
\* returned by analyze_error_block is the text of the first such entry, with no
\* prefix, as the default suggestion has none, and the report's suggestion
\* line is "Suggestion: " followed by that text.
C19_SuggestionWithoutExtraPrefix ==
  \A n \in 1..Len(error_summaries) :
    LET M == MatchingEntries(BlockText(n))
    IN M # {} =>
         \E k \in M :
           /\ \A j \in M : k <= j
           /\ error_summaries[n][2] = <<error_patterns[k].sugg>>
           /\ <<"Suggestion: ", error_patterns[k].sugg>>
                \in {stdout[i] : i \in 1..Len(stdout)}

-----------------------------------------------------------------------------
(* C20 *)

\* C20: once the file has been read the block list has as many blocks as the
\* counter says, and a completed run has printed as many "Error #" headers as
\* the count it returns and, when that is not zero, as many summary entries,
\* and "Total: N error(s)" with N the number of headers.
C20_BlocksEqualCounter ==
  /\ pc \in {"report", "exited"} /\ log.state = "readable" =>
       Len(error_blocks) = error_count
  /\ Completed =>
       /\ PrintedCount("Error #") = result
       /\ result > 0 =>
            /\ PrintedCount("\n  [") = result
            /\ PrintedCount("Total: ") = 1
            /\ <<"Total: ", ToString(PrintedCount("Error #")), " error(s)">>
                 \in {stdout[i] : i \in 1..Len(stdout)}

\* A completed run on three trigger lines: three blocks, three headers and
\* three summary entries.
C20_Witness ==
  /\ Completed
  /\ error_count = 3
  /\ Len(error_blocks) = 3
  /\ PrintedCount("Error #") = 3
  /\ PrintedCount("\n  [") = 3

-----------------------------------------------------------------------------
(* C15 *)

\* C15: when clean.py is run with --env and without --all and ends normally,
\* its standard output is the "unset VAR" lines of the listed variables that
\* are defined in the environment, and nothing else, whatever paths exist.
C15_EnvOutputOnlyUnsetLines ==
  /\ cleaner.pc = "exited"
  /\ cleaner.exit_status = 0
  /\ cleaner.args.env
  /\ ~cleaner.args.all
  => cleaner.stdout = unset_lines(cleaner.environ)

-----------------------------------------------------------------------------
(* C16 *)

\* path lies strictly below dir, component by component.
StrictlyInside(path, dir) ==
  Len(path) > Len(dir) /\ SubSeq(path, 1, Len(dir)) = dir

\* What the call has created or written so far.
CreatedOrWritten ==
  (extraction.fs.dirs \ extraction.fs0.dirs)
    \cup (extraction.fs.files \ extraction.fs0.files)
    \cup extraction.written

\* C16: for every archive, every file or directory safe_extract creates or
\* writes lies strictly inside the resolved target directory, and a member
\* whose resolved path is not strictly inside it raises ValueError and
\* changes nothing in the file system.
C16_ExtractionStaysInside ==
  /\ [](\A path \in CreatedOrWritten :
          StrictlyInside(path, resolve(extraction.fs0.links, extract_path)))
  /\ [][AtMember
          /\ ~StrictlyInside(member_path, resolve(extraction.fs0.links, extract_path))
        => /\ extraction'.raised = "ValueError"
           /\ extraction'.fs = extraction.fs
           /\ extraction'.written = extraction.written]_vars

\* An archive whose first member "a" has been written inside the target and
\* whose second member "../tt/a" has raised ValueError.
C16_Witness ==
  /\ extraction.pc = "raised"
  /\ extraction.raised = "ValueError"
  /\ extraction.namelist = << <<"a">>, <<".", ".", "/", "t", "t", "/", "a">> >>
  /\ extraction.next = 2
  /\ extraction.written = {<< <<"t">>, <<"a">> >>}
  /\ extraction.fs.dirs = extraction.fs0.dirs

-----------------------------------------------------------------------------
(* C17 *)

\* C17: a run of lxc/config.py or nethunter/config.py without -w never
\* writes the config file, which keeps the content it had when the script
\* started, whatever that content is; only a run with -w writes.
C17_CheckModeLeavesFileUnchanged ==
  ~kconfig.write_mode =>
    /\ kconfig.writes = 0
    /\ kconfig.file = kconfig.file0

\* A run of lxc/config.py without -w has ended on a file that enables an
\* option of CONFIGS_OFF and lacks every option of CONFIGS_ON: it has read
\* the file and counted errors that a run with -w would have fixed.
C17_Witness ==
  /\ kconfig.pc = "exited"
  /\ kconfig.exit_status = 0
  /\ kconfig.script = "lxc"
  /\ ~kconfig.write_mode
  /\ kconfig.file0 = [lines |-> << <<"CONFIG_SCHED_WALT", "=", "y">> >>, eol |-> TRUE]
  /\ kconfig.reads > 0
  /\ kconfig.errors > Len(configs_on("lxc"))
  /\ kconfig.fixes = 0

-----------------------------------------------------------------------------
(* C21 *)

\* The options a script lists.
ListedOptions(script) ==
  {configs_on(script)[i] : i \in DOMAIN configs_on(script)}
    \cup {configs_off(script)[i] : i \in DOMAIN configs_off(script)}

\* No listed option occurs more than once in the content.
NoOptionTwice(script, content) ==
  \A config \in ListedOptions(script) :
    Cardinality({<<i, j>> \in (DOMAIN content.lines) \X (1..6) :
                   j <= Len(content.lines[i]) /\ content.lines[i][j] = config}) <= 1

\* The content has a line "OPTION=y" or "OPTION=m".
HasEnabledLine(content, config) ==
  \E i \in DOMAIN content.lines :
    content.lines[i] \in {<<config, "=", "y">>, <<config, "=", "m">>}

\* C21: after a run with -w on a file inside the working directory in which
\* no listed option occurs more than once, every option of CONFIGS_ON has a
\* line "OPTION=y" or "OPTION=m" and no option of CONFIGS_OFF has one.
C21_WriteModeEnablesOnDisablesOff ==
  /\ kconfig.pc = "exited"
  /\ kconfig.exit_status = 0
  /\ kconfig.write_mode
  /\ kconfig.path = "inside"
  /\ NoOptionTwice(kconfig.script, kconfig.file0)
  => /\ \A i \in DOMAIN configs_on(kconfig.script) :
          HasEnabledLine(kconfig.file, configs_on(kconfig.script)[i])
     /\ \A i \in DOMAIN configs_off(kconfig.script) :
          ~HasEnabledLine(kconfig.file, configs_off(kconfig.script)[i])

-----------------------------------------------------------------------------
(* C22 *)

\* C22: a second run with -w leaves the file as the first run with -w left
\* it, whatever the file was before the first run.
C22_SecondWriteRunChangesNothing ==
  kconfig.run = 2 /\ kconfig.pc = "exited" => kconfig.file = kconfig.file0


(***************************************************************************)
(* C23                                                                     *)
(***************************************************************************)

\* C23: when the path given to either config script resolves outside the
\* working directory or leads to nothing, the script neither reads nor writes
\* the file, in check mode and with -w alike, and when it has exited its
\* status is 1.
C23_BadPathExitsBeforeTouchingFile ==
  kconfig.path \in {"outside", "missing"}
    => /\ kconfig.reads = 0
       /\ kconfig.writes = 0
       /\ kconfig.file = kconfig.file0
       /\ kconfig.pc \in {"idle", "start", "exited"}
       /\ kconfig.pc = "exited" => kconfig.exit_status = 1

\* A run with -w on a path outside the working directory has exited.
C23_Witness ==
  /\ kconfig.pc = "exited"
  /\ kconfig.path = "outside"
  /\ kconfig.write_mode
  /\ kconfig.exit_status = 1
  /\ kconfig.reads = 0


(***************************************************************************)
(* C24                                                                     *)
(***************************************************************************)

\* The lines of the file as apply_cgroup_patch found it and as it left it.
SourceBefore == split(read_text(patcher.file0))
SourceAfter == split(read_text(patcher.file))

\* The four patch lines stand at lines q .. q+3.
IsPatchAt(lines, q) ==
  /\ q + 3 <= Len(lines)
  /\ \E indent \in 0..2 : SubSeq(lines, q, q + 3) = patch_code(spaces(indent))

\* How many braces are open after line j, counted from line b on.
RECURSIVE depth(_, _, _)
depth(lines, b, j) ==
  IF j < b THEN 0
  ELSE depth(lines, b, j - 1) + count(lines[j], "{") - count(lines[j], "}")

\* Line q lies inside the body of cgroup_add_file: the head of the definition
\* (not a prototype, which ends with ';') is at some line h, its opening brace
\* at a line b from h on, and the brace is still open before line q.
InBodyOfCgroupAddFile(lines, q) ==
  \E h \in 1..(q - 1), b \in 1..(q - 1) :
    /\ h <= b
    /\ Contains(lines[h], "int cgroup_add_file")
    /\ \A j \in h..b : ~Contains(lines[j], ";")
    /\ \A j \in h..(b - 1) : count(lines[j], "{") = 0 /\ count(lines[j], "}") = 0
    /\ count(lines[b], "{") > 0
    /\ \A j \in b..(q - 1) : depth(lines, b, j) > 0

\* C24: in a file apply_cgroup_patch has written, the four patch lines stand
\* immediately before a 'return 0;' line, and inside the body of
\* cgroup_add_file, never before the 'return 0;' of another function.
C24_PatchOnlyInsideCgroupAddFile ==
  patcher.pc = "returned" /\ patcher.writes > 0
    => \A q \in DOMAIN SourceAfter :
         IsPatchAt(SourceAfter, q)
           => /\ q + 4 <= Len(SourceAfter)
              /\ strip(SourceAfter[q + 4]) = <<"return 0;">>
              /\ InBodyOfCgroupAddFile(SourceAfter, q)


(***************************************************************************)
(* C25                                                                     *)
(***************************************************************************)

\* The four patch lines as they stand in a file, each followed by terminator.
PatchText(indent, terminator) ==
  LET code == patch_code(spaces(indent))
  IN  code[1] \o <<terminator>> \o code[2] \o <<terminator>>
        \o code[3] \o <<terminator>> \o code[4] \o <<terminator>>

\* The file is the file it was with the four patch lines put in at one place,
\* and nothing else changed.
IsInputPlusPatch(terminators) ==
  \E p \in 0..Len(patcher.file0), indent \in 0..2, terminator \in terminators :
    patcher.file = SubSeq(patcher.file0, 1, p) \o PatchText(indent, terminator)
                     \o SubSeq(patcher.file0, p + 1, Len(patcher.file0))

\* The file as found ends its lines with "\n" only.
OnlyNL(file) == \A i \in DOMAIN file : file[i] \notin {CRLF, CR}

\* The claim as first stated: a call that has returned has written at most
\* once; the file it wrote is the file it found with one copy of the four
\* patch lines added and nothing else changed; a call that found no insertion
\* point has left the file as it was.
C25_WrittenFileIsInputPlusPatch ==
  patcher.pc = "returned"
    => /\ patcher.writes <= 1
       /\ patcher.writes = 1 => IsInputPlusPatch({NL, CRLF, CR})
       /\ patcher.writes = 0 => patcher.file = patcher.file0

\* C25: a call of apply_cgroup_patch that has returned has written at most
\* once.  The lines of the file it wrote are the lines of the file it found,
\* all of them and in their order, with one copy of the four patch lines put
\* in at one place; every line of the written file ends with "\n", so that a
\* file found with "\n" only is the same file with the patch added, while the
\* "\r\n" and "\r" of a file are rewritten as "\n".  A call that found no
\* insertion point has written nothing and the file is as it was.
C25_LinesKeptPatchAddedOnce ==
  patcher.pc = "returned"
    => /\ patcher.writes <= 1
       /\ patcher.writes = 1
            => /\ Len(SourceAfter) = Len(SourceBefore) + 4
               /\ \E q \in DOMAIN SourceAfter :
                    /\ IsPatchAt(SourceAfter, q)
                    /\ SubSeq(SourceAfter, 1, q - 1)
                         \o SubSeq(SourceAfter, q + 4, Len(SourceAfter)) = SourceBefore
               /\ OnlyNL(patcher.file)
               /\ OnlyNL(patcher.file0) => IsInputPlusPatch({NL})
       /\ patcher.writes = 0 => patcher.file = patcher.file0 /\ ~patcher.inserted

\* A file with "\r\n" has been patched and written.
C25_Witness ==
  /\ patcher.pc = "returned"
  /\ patcher.writes = 1
  /\ Contains(patcher.file0, CRLF)
  /\ patcher.file # patcher.file0
  /\ Len(SourceAfter) = Len(SourceBefore) + 4

=============================================================================
